---------------------------- MODULE Spec2Model ----------------------------
(***************************************************************************)
(* A model of the fujinet-nio client library: the FujiBus packet codec     *)
(* (fn_packet.c), the SLIP framing layer (fn_slip.c) and the session       *)
(* table with the public network operations (fn_network.c).                *)
(*                                                                         *)
(* Byte buffers are sequences of numbers in 0..255.  A C index i is the    *)
(* TLA+ index i+1.  Integers keep the width of their C type.               *)
(***************************************************************************)
EXTENDS Integers, Sequences, FiniteSets, TLC

(***************************************************************************)
(* Program constants                                                       *)
(***************************************************************************)
SLIP_END == 192
SLIP_ESCAPE == 219
SLIP_ESC_END == 220
SLIP_ESC_ESC == 221

FN_DEVICE_NETWORK == 253
FN_CMD_OPEN == 1
FN_CMD_READ == 2
FN_CMD_WRITE == 3
FN_CMD_CLOSE == 4
FN_CMD_INFO == 5
FN_PROTOCOL_VERSION == 1
FN_HEADER_SIZE == 6
FN_MAX_PACKET_SIZE == 1024
\* uint8_t slip_buf[1024] of fn_transport_exchange
SlipBufSize == 1024

FN_MAX_URL_LEN == 256
FN_MAX_TIMEZONE_LEN == 64
FN_MAX_SESSIONS == 4
FN_INVALID_HANDLE == 0

FN_OK == 0
FN_ERR_NOT_FOUND == 1
FN_ERR_INVALID == 2
FN_ERR_BUSY == 3
FN_ERR_NOT_READY == 4
FN_ERR_IO == 5
FN_ERR_TIMEOUT == 6
FN_ERR_UNSUPPORTED == 8
FN_ERR_URL_TOO_LONG == 17
FN_ERR_NO_HANDLES == 18

FN_METHOD_POST == 2
FN_OPEN_TLS == 1
FN_OPEN_FOLLOW_REDIR == 2
FN_OPEN_ALLOW_EVICT == 8
FN_OPEN_FLAG_TLS == 1
FN_OPEN_FLAG_FOLLOW_REDIR == 2
FN_OPEN_FLAG_ALLOW_EVICT == 8
FN_OPEN_RESP_ACCEPTED == 1
FN_OPEN_RESP_NEEDS_BODY == 2
FN_READ_RESP_EOF == 1

(***************************************************************************)
(* Bounds of the model                                                     *)
(***************************************************************************)
\* longest byte sequence given to the framing layer
MaxSlipLen == 3
MaxSumLen == 3
\* longest data block given to the Write builder
MaxDataLen == 2
\* the device issues handles 1..MaxHandle
MaxHandle == 5
\* a write is attempted only while the session's cursor is below this
MaxCursor == 2
\* calls that change the session table or the device, per behaviour
MaxSteps == 3
\* calls that change the state in one run of SpecTable
MaxTableSteps == 5
MaxTailLen == 3
RawBufSize == 4

(***************************************************************************)
(* Fixed-width arithmetic and byte access                                  *)
(***************************************************************************)
U8(x) == x % 256
U16(x) == x % 65536
\* a uint32_t holds x mod 2^32.  The model checker's integers end at 2^31 - 1,
\* so every value it can hand to U32 is already its own residue; the cursors
\* of the model stay below 2^17.
U32(x) == x

\* the C pointer value NULL where a buffer or string is expected: a value no
\* byte sequence equals
NULL == << -1 >>

\* bit b (a power of two) of the byte x is set: the C test (x & b)
BitSet(x, b) == (x \div b) % 2 = 1

\* buffer[i] for a C index i; a static buffer is zero beyond what was written
Peek(buffer, i) == IF i + 1 \in DOMAIN buffer THEN buffer[i + 1] ELSE 0

\* the two bytes of a uint16_t and the four of a uint32_t, little-endian,
\* as the builders store them (x & 0xFF, (x >> 8) & 0xFF, ...)
LE16(x) == << x % 256, (x \div 256) % 256 >>
LE32(x) == << x % 256, (x \div 256) % 256, (x \div 65536) % 256, (x \div 16777216) % 256 >>

\* response[i] | (response[i+1] << 8), as the parsers read a uint16_t
RD16(buffer, i) == Peek(buffer, i) + 256 * Peek(buffer, i + 1)
RD32(buffer, i) == RD16(buffer, i) + 65536 * RD16(buffer, i + 2)

(***************************************************************************)
(* fn_packet.c: checksum                                                   *)
(***************************************************************************)
\* a loop body that adds the byte and folds nothing back
ChecksumStepUnfolded(chk, byte) == U16(chk + byte)

\* one pass of the loop body: chk += data[i], then the carry is folded back
ChecksumStep(chk, byte) ==
    LET added == U16(chk + byte)
    IN U16((added \div 256) + (added % 256))

\* the loop over data[lo .. hi-1], started with chk; a long range is done as
\* its first half followed by its second half (the test on first makes the
\* model checker compute it before going on)
RECURSIVE ChecksumLoop(_, _, _, _)
ChecksumLoop(data, lo, hi, chk) ==
    IF lo >= hi THEN chk
    ELSE IF hi - lo = 1 THEN ChecksumStep(chk, Peek(data, lo))
    ELSE LET mid == lo + ((hi - lo) \div 2)
             first == ChecksumLoop(data, lo, mid, chk)
         IN IF first >= 0 THEN ChecksumLoop(data, mid, hi, first) ELSE first

fn_calc_checksum(data, len) == U8(ChecksumLoop(data, 0, len, 0))

(***************************************************************************)
(* fn_slip.c: framing                                                      *)
(***************************************************************************)
\* a framing layer that escapes nothing
SlipEncodeByteRaw(b) == << b >>

SlipEncodeByte(b) ==
    IF b = SLIP_END THEN << SLIP_ESCAPE, SLIP_ESC_END >>
    ELSE IF b = SLIP_ESCAPE THEN << SLIP_ESCAPE, SLIP_ESC_ESC >>
    ELSE << b >>

RECURSIVE SlipEncodeLoop(_, _, _)
SlipEncodeLoop(input, i, output) ==
    IF i >= Len(input) THEN output
    ELSE SlipEncodeLoop(input, i + 1, output \o SlipEncodeByte(Peek(input, i)))

\* the bytes written to output; the function returns their number
fn_slip_encode(input) ==
    SlipEncodeLoop(input, 0, << SLIP_END >>) \o << SLIP_END >>

\* what the loop adds to out_len for input[lo .. hi - 1]: one for a byte
\* stored as it is, two for an escaped one
RECURSIVE SlipCountLoop(_, _, _)
SlipCountLoop(input, lo, hi) ==
    IF lo >= hi THEN 0
    ELSE IF hi - lo = 1 THEN Len(SlipEncodeByte(Peek(input, lo)))
    ELSE LET mid == lo + ((hi - lo) \div 2)
         IN SlipCountLoop(input, lo, mid) + SlipCountLoop(input, mid, hi)

\* the number of bytes fn_slip_encode stores from output[0] on
SlipStored(input) == 1 + SlipCountLoop(input, 0, Len(input)) + 1

\* the state of the decode loop: i is the read index, output the bytes
\* stored so far; the result is [len |-> returned length, output |-> bytes]
RECURSIVE SlipDecodeLoop(_, _, _)
SlipDecodeLoop(input, i, output) ==
    IF i >= Len(input) THEN [len |-> U16(Len(output)), output |-> output]
    ELSE LET b == Peek(input, i)
         IN IF b = SLIP_END THEN [len |-> U16(Len(output)), output |-> output]
            ELSE IF b = SLIP_ESCAPE
                 THEN IF i + 1 >= Len(input) THEN [len |-> 0, output |-> output]
                      ELSE LET e == Peek(input, i + 1)
                           IN IF e = SLIP_ESC_END
                              THEN SlipDecodeLoop(input, i + 2, Append(output, SLIP_END))
                              ELSE IF e = SLIP_ESC_ESC
                                   THEN SlipDecodeLoop(input, i + 2, Append(output, SLIP_ESCAPE))
                                   ELSE [len |-> 0, output |-> output]
                 ELSE SlipDecodeLoop(input, i + 1, Append(output, b))

\* a decoder that takes a leading sentinel for the end of the frame
SlipDecodeNoSkip(input) == 0

SlipDecodeStart(input) ==
    IF Len(input) > 0 /\ Peek(input, 0) = SLIP_END THEN 1 ELSE 0

fn_slip_decode(input) == SlipDecodeLoop(input, SlipDecodeStart(input), << >>)

(***************************************************************************)
(* fn_packet.c: request builders.  A builder returns the bytes it wrote;   *)
(* its C return value is their number (0 for the empty sequence).          *)
(***************************************************************************)
fn_build_header(device_id, command, total_len) ==
    << device_id, command, total_len % 256, (total_len \div 256) % 256, 0, 0 >>

\* a builder that leaves the checksum field at zero
LeaveChecksumZero(buffer) == buffer

\* checksum = fn_calc_checksum(buffer, offset); buffer[4] = checksum
PatchChecksum(buffer) ==
    [buffer EXCEPT ![5] = fn_calc_checksum(buffer, Len(buffer))]

\* url is a sequence of character codes (the string without its NUL)
fn_build_open_packet(method, flags, url) ==
    IF Len(url) > FN_MAX_URL_LEN THEN << >>
    ELSE LET url_len == Len(url)
             payload_len == U16(1 + 1 + 1 + 2 + url_len + 2 + 4 + 2)
             total_len == U16(FN_HEADER_SIZE + payload_len)
         IN PatchChecksum(
                fn_build_header(FN_DEVICE_NETWORK, FN_CMD_OPEN, total_len)
                \o << FN_PROTOCOL_VERSION, method, flags >>
                \o LE16(url_len) \o url
                \o << 0, 0 >> \o << 0, 0, 0, 0 >> \o << 0, 0 >>)

fn_build_read_packet(handle, offset_val, max_bytes) ==
    LET payload_len == 9
        total_len == U16(FN_HEADER_SIZE + payload_len)
    IN PatchChecksum(
           fn_build_header(FN_DEVICE_NETWORK, FN_CMD_READ, total_len)
           \o << FN_PROTOCOL_VERSION >> \o LE16(handle)
           \o LE32(offset_val) \o LE16(max_bytes))

\* data is a byte sequence of at least data_len bytes, or NULL
fn_build_write_packet(handle, offset_val, data, data_len) ==
    LET payload_len == U16(1 + 2 + 4 + 2 + data_len)
        total_len == U16(FN_HEADER_SIZE + payload_len)
        copied == IF data_len > 0 /\ data # NULL
                  THEN SubSeq(data, 1, data_len) ELSE << >>
    IN PatchChecksum(
           fn_build_header(FN_DEVICE_NETWORK, FN_CMD_WRITE, total_len)
           \o << FN_PROTOCOL_VERSION >> \o LE16(handle)
           \o LE32(offset_val) \o LE16(data_len) \o copied)

fn_build_close_packet(handle) ==
    LET payload_len == 3
        total_len == U16(FN_HEADER_SIZE + payload_len)
    IN PatchChecksum(
           fn_build_header(FN_DEVICE_NETWORK, FN_CMD_CLOSE, total_len)
           \o << FN_PROTOCOL_VERSION >> \o LE16(handle))

fn_build_info_packet(handle) ==
    LET payload_len == 3
        total_len == U16(FN_HEADER_SIZE + payload_len)
    IN PatchChecksum(
           fn_build_header(FN_DEVICE_NETWORK, FN_CMD_INFO, total_len)
           \o << FN_PROTOCOL_VERSION >> \o LE16(handle))

(***************************************************************************)
(* fn_packet.c: response parsers.  response is the receive buffer and      *)
(* resp_len the number of bytes the framing layer delivered into it.  An   *)
(* output the parser did not store is reported as Unset (no bytes copied   *)
(* as the empty sequence).                                                 *)
(***************************************************************************)
Unset == 0 - 1

field_size_table == << 0, 1, 1, 1, 1, 2, 2, 4 >>
field_count_table == << 0, 1, 2, 3, 4, 1, 2, 1 >>

HeaderFail(code) ==
    [result |-> code, status |-> Unset, data_offset |-> Unset, data_len |-> Unset]

\* a parser that takes the stored checksum byte for the computed one
ResponseChecksumTrusted(response, resp_len) == Peek(response, 4)

\* tmp_buffer[4] = 0; checksum = fn_calc_checksum(tmp_buffer, resp_len)
ResponseChecksum(response, resp_len) ==
    fn_calc_checksum([i \in 1..resp_len |-> IF i = 5 THEN 0 ELSE Peek(response, i - 1)],
                     resp_len)

\* while (descr & 0x80): the last descriptor byte and the offset after it,
\* or offset = -1 when the bytes run out
RECURSIVE DescriptorLoop(_, _, _, _)
DescriptorLoop(response, resp_len, descr, offset) ==
    IF ~BitSet(descr, 128) THEN [descr |-> descr, offset |-> offset]
    ELSE IF offset >= resp_len THEN [descr |-> descr, offset |-> -1]
    ELSE DescriptorLoop(response, resp_len, Peek(response, offset), offset + 1)

\* *status |= response[offset + i] << (8 * i) for i < field_size, in a
\* uint8_t: the shifted bytes of i >= 1 have no bit below 2^8
RECURSIVE StatusLoop(_, _, _, _, _)
StatusLoop(response, offset, field_size, i, status) ==
    IF i >= field_size THEN status
    ELSE StatusLoop(response, offset, field_size, i + 1,
                    U8(status + U8(Peek(response, offset + i) * (2 ^ (8 * i)))))

\* a header parser that does not compare the length field with resp_len
PacketLengthUnchecked(response, resp_len) == FALSE

\* pkt_len = response[2] | (response[3] << 8); pkt_len != resp_len
PacketLengthMismatch(response, resp_len) == RD16(response, 2) # resp_len

fn_parse_response_header(response, resp_len) ==
    IF resp_len < FN_HEADER_SIZE THEN HeaderFail(FN_ERR_INVALID)
    ELSE IF PacketLengthMismatch(response, resp_len) THEN HeaderFail(FN_ERR_INVALID)
    ELSE IF resp_len > 1024 THEN HeaderFail(FN_ERR_INVALID)
    ELSE IF ResponseChecksum(response, resp_len) # Peek(response, 4) THEN HeaderFail(FN_ERR_IO)
    ELSE IF Peek(response, 5) = 0
         THEN [result |-> FN_OK, status |-> FN_OK, data_offset |-> FN_HEADER_SIZE,
               data_len |-> U16(resp_len - FN_HEADER_SIZE)]
    ELSE LET d == DescriptorLoop(response, resp_len, Peek(response, 5), FN_HEADER_SIZE)
         IN IF d.offset < 0 THEN HeaderFail(FN_ERR_INVALID)
            ELSE LET field_desc == d.descr % 8
                     field_size == field_size_table[field_desc + 1]
                     field_count == field_count_table[field_desc + 1]
                     has_status == field_count > 0 /\ d.offset + field_size <= resp_len
                     offset == IF has_status
                               THEN U16(d.offset + field_size * field_count)
                               ELSE d.offset
                 IN [result |-> FN_OK,
                     status |-> IF has_status
                                THEN StatusLoop(response, d.offset, field_size, 0, 0)
                                ELSE FN_OK,
                     data_offset |-> offset,
                     data_len |-> U16(resp_len - offset)]

\* a typed parser that goes on to the payload whatever the status
StatusIgnored(status) == FALSE

\* if (status != FN_OK) return status
StatusRefused(status) == status # FN_OK

\* a copy of the whole declared length, whatever the caller's buffer holds
CopyAll(actual_data_len, data_max) == actual_data_len

\* copy_len = actual_data_len; if (copy_len > data_max) copy_len = data_max
CopyLen(actual_data_len, data_max) ==
    IF actual_data_len > data_max THEN data_max ELSE actual_data_len

fn_parse_open_response(response, resp_len) ==
    LET h == fn_parse_response_header(response, resp_len)
        fail(code) == [result |-> code, handle |-> Unset, flags |-> Unset]
    IN IF h.result # FN_OK THEN fail(h.result)
       ELSE IF StatusRefused(h.status) THEN fail(h.status)
       ELSE IF h.data_len < 6 THEN fail(FN_ERR_INVALID)
       ELSE [result |-> FN_OK,
             handle |-> RD16(response, h.data_offset + 4),
             flags |-> Peek(response, h.data_offset + 1)]

\* data is the caller's buffer (NULL or not) of data_max bytes; copied are
\* the bytes memcpy stored at its start
fn_parse_read_response(response, resp_len, data, data_max) ==
    LET h == fn_parse_response_header(response, resp_len)
        fail(code) == [result |-> code, handle |-> Unset, offset_echo |-> Unset,
                       flags |-> Unset, copied |-> << >>, data_len |-> Unset]
    IN IF h.result # FN_OK THEN fail(h.result)
       ELSE IF StatusRefused(h.status) THEN fail(h.status)
       ELSE IF h.data_len < 12 THEN fail(FN_ERR_INVALID)
       ELSE LET actual_data_len == RD16(response, h.data_offset + 10)
                copy_len == CopyLen(actual_data_len, data_max)
            IN [result |-> FN_OK,
                handle |-> RD16(response, h.data_offset + 4),
                offset_echo |-> RD32(response, h.data_offset + 6),
                flags |-> Peek(response, h.data_offset + 1),
                copied |-> IF copy_len > 0 /\ data # NULL
                           THEN [k \in 1..copy_len |->
                                    Peek(response, h.data_offset + 12 + k - 1)]
                           ELSE << >>,
                data_len |-> actual_data_len]

fn_parse_info_response(response, resp_len) ==
    LET h == fn_parse_response_header(response, resp_len)
        fail(code) == [result |-> code, handle |-> Unset, http_status |-> Unset,
                       content_length |-> Unset, flags |-> Unset]
    IN IF h.result # FN_OK THEN fail(h.result)
       ELSE IF StatusRefused(h.status) THEN fail(h.status)
       ELSE IF h.data_len < 16
            THEN [result |-> FN_OK, handle |-> Unset, http_status |-> 0,
                  content_length |-> 0, flags |-> 0]
       ELSE [result |-> FN_OK,
             handle |-> RD16(response, h.data_offset + 4),
             http_status |-> RD16(response, h.data_offset + 6),
             content_length |-> RD32(response, h.data_offset + 8),
             flags |-> Peek(response, h.data_offset + 1)]

(***************************************************************************)
(* fn_clock.c: the clock operations, by name without the fn_ prefix.  The  *)
(* device id, the command codes and the payload version come from a header *)
(* that is not part of the sources; the values are those of the protocol.  *)
(***************************************************************************)
FN_DEVICE_CLOCK == 69
FN_CLOCK_VERSION == 1

ClockOps ==
    { "clock_get", "clock_set", "clock_get_format", "clock_get_tz",
      "clock_get_timezone", "clock_set_timezone", "clock_set_timezone_save",
      "clock_sync_network_time" }

\* FN_CMD_CLOCK_GET, _SET, _GET_FORMAT (also sent by fn_clock_get_tz),
\* _GET_TZ, _SET_TZ, _SET_TZ_SAVE, _SYNC_NETWORK_TIME
ClockCommand(op) ==
    CASE op = "clock_get" -> 1
      [] op = "clock_set" -> 2
      [] op \in { "clock_get_format", "clock_get_tz" } -> 3
      [] op = "clock_get_timezone" -> 4
      [] op = "clock_set_timezone" -> 5
      [] op = "clock_set_timezone_save" -> 6
      [] op = "clock_sync_network_time" -> 7

\* the request of a clock operation: time is the 8 bytes of *time, tz the
\* time zone string without its NUL
fn_clock_request(op, time, format, tz) ==
    LET tz_len == IF Len(tz) < FN_MAX_TIMEZONE_LEN THEN Len(tz) ELSE FN_MAX_TIMEZONE_LEN
        sent == [k \in 1..tz_len |-> tz[k]]
        payload ==
            CASE op \in { "clock_get", "clock_get_timezone" } -> << >>
              [] op = "clock_set" -> << FN_CLOCK_VERSION >> \o time
              [] op = "clock_get_format" -> << FN_CLOCK_VERSION, format >>
              [] op = "clock_get_tz" -> << FN_CLOCK_VERSION, format, tz_len >> \o sent
              [] op \in { "clock_set_timezone", "clock_set_timezone_save" } ->
                     << FN_CLOCK_VERSION, tz_len >> \o sent
              [] op = "clock_sync_network_time" -> << FN_CLOCK_VERSION >>
    IN PatchChecksum(
           fn_build_header(FN_DEVICE_CLOCK, ClockCommand(op),
                           U16(FN_HEADER_SIZE + Len(payload)))
           \o payload)

\* what a clock operation does with the response of its exchange: result is
\* what it returns, stored whether it wrote its output, out the bytes written
fn_clock_response(op, response, resp_len) ==
    LET h == fn_parse_response_header(response, resp_len)
        fail(code) == [result |-> code, stored |-> FALSE, out |-> << >>]
        at(k) == Peek(response, h.data_offset + k)
        tz_len == at(1)
        copy_len == IF tz_len < FN_MAX_TIMEZONE_LEN - 1 THEN tz_len
                    ELSE FN_MAX_TIMEZONE_LEN - 1
    IN IF h.result # FN_OK THEN fail(h.result)
       ELSE IF op \in { "clock_set", "clock_set_timezone", "clock_set_timezone_save" }
       THEN fail(h.status)
       ELSE IF StatusRefused(h.status) THEN fail(h.status)
       ELSE IF op \in { "clock_get", "clock_sync_network_time" }
       THEN IF h.data_len < 12 THEN fail(FN_ERR_INVALID)
            ELSE IF at(0) # FN_CLOCK_VERSION THEN fail(FN_ERR_UNSUPPORTED)
            ELSE [result |-> FN_OK, stored |-> TRUE,
                  out |-> [i \in 1..8 |-> at(4 + i - 1)]]
       ELSE IF h.data_len < 2 THEN fail(FN_ERR_INVALID)
       ELSE IF at(0) # FN_CLOCK_VERSION THEN fail(FN_ERR_UNSUPPORTED)
       ELSE IF op = "clock_get_timezone"
       THEN [result |-> FN_OK, stored |-> TRUE,
             out |-> [i \in 1..copy_len |-> at(2 + i - 1)] \o << 0 >>]
       ELSE [result |-> FN_OK, stored |-> TRUE,
             out |-> [i \in 1..(h.data_len - 2) |-> at(2 + i - 1)]]

(***************************************************************************)
(* State                                                                   *)
(***************************************************************************)
VARIABLES
    initialized,    \* fn_network.c _initialized
    sessions,       \* fn_network.c _sessions: slot 0..FN_MAX_SESSIONS-1 -> fn_session_t
    devOpen,        \* the handles the companion device considers open
    accepted,       \* per slot: bytes the device acknowledged in Write replies
                    \* that reached the library intact since the slot's Open
    steps,          \* calls so far that changed the table, the device or accepted
    last,           \* the public call that has just returned, NoCall when idle
    slip,           \* framing layer check: input and results
    codec,          \* codec check: builder arguments and results
    typed,          \* typed parser check: the response and what each parser made of it
    xchg,           \* fn_transport_exchange in progress: its locals and its result
    race            \* two concurrent callers of fn_open: their positions and locals

netVars == << initialized, sessions, devOpen, accepted, steps, last >>
vars == << initialized, sessions, devOpen, accepted, steps, last, slip, codec, typed, xchg,
          race >>

Slots == 0..(FN_MAX_SESSIONS - 1)
Handles == 1..MaxHandle

ZeroSession ==
    [active |-> 0, handle |-> 0, is_tcp |-> 0, needs_body |-> 0,
     write_offset |-> 0, read_offset |-> 0]

\* what the caller's output variables hold; Unset: the call stored nothing
NoOut ==
    [handle |-> Unset, written |-> Unset, bytes_read |-> Unset, flags |-> Unset,
     buf |-> << >>, http_status |-> Unset, content_length |-> Unset]

\* op: the operation; handle, offset: its arguments (Unset where it has none);
\* badptr: a pointer the operation needs was NULL; longurl: the URL exceeds
\* FN_MAX_URL_LEN; len: the byte count of an fn_write or the max_len of an fn_read; result: the value
\* returned; nx: calls of fn_transport_exchange made; xres: what the exchange
\* (for fn_init, fn_transport_init) returned; sent: the bytes written to the link; resp: the bytes delivered;
\* out: the caller's outputs; host, port: the arguments of fn_tcp_open;
\* method, url, flags: the arguments of fn_open
NoCall ==
    [op |-> "none", handle |-> Unset, offset |-> Unset, badptr |-> FALSE,
     longurl |-> FALSE, len |-> Unset, result |-> Unset, nx |-> 0, xres |-> Unset,
     sent |-> << >>, resp |-> << >>, out |-> NoOut, host |-> << >>, port |-> Unset,
     method |-> Unset, url |-> << >>, flags |-> Unset]

Idle == last.op = "none"

(***************************************************************************)
(* fn_network.c: session table helpers                                     *)
(***************************************************************************)
RECURSIVE FreeSlotLoop(_, _)
FreeSlotLoop(table, i) ==
    IF i >= FN_MAX_SESSIONS THEN -1
    ELSE IF table[i].active = 0 THEN i
    ELSE FreeSlotLoop(table, i + 1)

_find_free_slot(table) == FreeSlotLoop(table, 0)

RECURSIVE FindSessionLoop(_, _, _)
FindSessionLoop(table, handle, i) ==
    IF i >= FN_MAX_SESSIONS THEN -1
    ELSE IF table[i].active # 0 /\ table[i].handle = handle THEN i
    ELSE FindSessionLoop(table, handle, i + 1)

_find_session(table, handle) == FindSessionLoop(table, handle, 0)

\* an fn_close that leaves the table alone
KeepHandle(table, handle) == table

\* _alloc_handle(): the handle returned and the table it leaves; the handle
\* field of the slot is not among the fields it stores
_alloc_handle(table) ==
    LET slot == _find_free_slot(table)
    IN IF slot < 0 THEN [handle |-> FN_INVALID_HANDLE, table |-> table]
       ELSE [handle |-> slot + 1,
             table |-> [table EXCEPT ![slot].active = 1, ![slot].is_tcp = 0,
                                     ![slot].needs_body = 0, ![slot].write_offset = 0,
                                     ![slot].read_offset = 0]]

\* the table after _free_handle(handle)
_free_handle(table, handle) ==
    IF handle = FN_INVALID_HANDLE THEN table
    ELSE LET slot == _find_session(table, handle)
         IN IF slot >= 0 THEN [table EXCEPT ![slot].active = 0] ELSE table

(***************************************************************************)
(* The companion device and the link, as fn_transport_exchange presents    *)
(* them to its caller: one request goes out, and either a decoded response *)
(* comes back or the exchange fails.                                       *)
(***************************************************************************)
\* a reply frame: header, descriptor 1 (one 1-byte field: the status), payload
DevFrame(command, status, payload) ==
    LET total_len == FN_HEADER_SIZE + 1 + Len(payload)
        body == << FN_DEVICE_NETWORK, command, total_len % 256,
                   (total_len \div 256) % 256, 0, 1, status >> \o payload
    IN [body EXCEPT ![5] = fn_calc_checksum(body, Len(body))]

DevOpenPayload(flags, handle) ==
    << FN_PROTOCOL_VERSION, flags, 0, 0 >> \o LE16(handle)
DevWritePayload(handle, offset, written) ==
    << FN_PROTOCOL_VERSION, 0, 0, 0 >> \o LE16(handle) \o LE32(offset) \o LE16(written)
DevReadPayload(flags, handle, offset, data) ==
    << FN_PROTOCOL_VERSION, flags, 0, 0 >> \o LE16(handle) \o LE32(offset)
    \o LE16(Len(data)) \o data
DevInfoPayload(flags, handle, http_status, content_length) ==
    << FN_PROTOCOL_VERSION, flags, 0, 0 >> \o LE16(handle) \o LE16(http_status)
    \o LE32(content_length) \o << 0, 0, 0, 0 >>

\* a reply: the frame, the device's open handles afterwards, and the byte
\* count a successful Write reply acknowledges (0 for every other reply)
Reply(frame, open, acked) == [frame |-> frame, open |-> open, acked |-> acked]

\* the handle the device issues: the lowest one not in use, 0 (none) when
\* all of 1..MaxHandle are in use
LowestFree(open) ==
    IF Handles \ open = {} THEN 0
    ELSE CHOOSE h \in Handles \ open : \A g \in Handles \ open : h <= g

\* Open: refuse, or grant the lowest handle that is not open on the device; a
\* request that allows eviction may first cost one open session e its handle,
\* and the new session then gets the lowest free handle or e again
DevOpenReplies(req, open) ==
    LET method == Peek(req, 7)
        flags == Peek(req, 8)
        rflags == IF method = FN_METHOD_POST
                  THEN FN_OPEN_RESP_ACCEPTED + FN_OPEN_RESP_NEEDS_BODY
                  ELSE FN_OPEN_RESP_ACCEPTED
        grant(base, issued) ==
            { Reply(DevFrame(FN_CMD_OPEN, FN_OK, DevOpenPayload(rflags, h)),
                    base \cup {h}, 0) : h \in issued \ {0} }
    IN { Reply(DevFrame(FN_CMD_OPEN, FN_ERR_BUSY, << >>), open, 0) }
       \cup grant(open, { LowestFree(open) })
       \cup IF BitSet(flags, FN_OPEN_FLAG_ALLOW_EVICT)
            THEN UNION { grant(open \ {e}, { e, LowestFree(open) }) : e \in open }
            ELSE {}

\* Write: acknowledge all the data or all but one byte, or report that the
\* session kind does not support the request, or that the handle is unknown
DevWriteReplies(req, open) ==
    LET handle == RD16(req, 7)
        offset == RD32(req, 9)
        data_len == RD16(req, 13)
        counts == { n \in { data_len, data_len - 1 } : n >= 0 }
    IN IF handle \notin open
       THEN { Reply(DevFrame(FN_CMD_WRITE, FN_ERR_NOT_FOUND, << >>), open, 0) }
       ELSE { Reply(DevFrame(FN_CMD_WRITE, FN_OK, DevWritePayload(handle, offset, n)),
                    open, n) : n \in counts }
            \cup { Reply(DevFrame(FN_CMD_WRITE, FN_ERR_UNSUPPORTED, << >>), open, 0),
                   Reply(DevFrame(FN_CMD_WRITE, FN_OK, << FN_PROTOCOL_VERSION >>), open, 0) }

\* Read: two bytes of data with end-of-data set, or nothing available yet
DevReadReplies(req, open) ==
    LET handle == RD16(req, 7)
        offset == RD32(req, 9)
    IN IF handle \notin open
       THEN { Reply(DevFrame(FN_CMD_READ, FN_ERR_NOT_FOUND, << >>), open, 0) }
       ELSE { Reply(DevFrame(FN_CMD_READ, FN_OK,
                             DevReadPayload(FN_READ_RESP_EOF, handle, offset, << 79, 75 >>)),
                    open, 0),
              Reply(DevFrame(FN_CMD_READ, FN_ERR_NOT_READY, << >>), open, 0) }

DevInfoReplies(req, open) ==
    LET handle == RD16(req, 7)
    IN IF handle \notin open
       THEN { Reply(DevFrame(FN_CMD_INFO, FN_ERR_NOT_FOUND, << >>), open, 0) }
       ELSE { Reply(DevFrame(FN_CMD_INFO, FN_OK, DevInfoPayload(6, handle, 200, 5)), open, 0),
              Reply(DevFrame(FN_CMD_INFO, FN_ERR_NOT_READY, << >>), open, 0) }

DevCloseReplies(req, open) ==
    LET handle == RD16(req, 7)
    IN IF handle \notin open
       THEN { Reply(DevFrame(FN_CMD_CLOSE, FN_ERR_NOT_FOUND, << >>), open, 0) }
       ELSE { Reply(DevFrame(FN_CMD_CLOSE, FN_OK, << >>), open \ {handle}, 0) }

\* the clock device: a time (8 bytes) for Get and Sync, a text for Get-Format
\* and Get-Timezone, a bare status for the Set commands; each also with an
\* unknown version, a payload that is too short, and a refusal
DevClockReplies(req, open) ==
    LET command == Peek(req, 1)
        payloads ==
            IF command \in { ClockCommand("clock_get"),
                             ClockCommand("clock_sync_network_time") }
            THEN { << v, 0, 0, 0, 1, 2, 3, 4, 5, 6, 7, 8 >> : v \in { FN_CLOCK_VERSION, 2 } }
                 \cup { << FN_CLOCK_VERSION, 0, 0, 0 >> }
            ELSE IF command \in { ClockCommand("clock_get_format"),
                                  ClockCommand("clock_get_timezone") }
            THEN { << v, 2, 85, 84 >> : v \in { FN_CLOCK_VERSION, 2 } }
                 \cup { << FN_CLOCK_VERSION >> }
            ELSE { << >> }
    IN { Reply(DevFrame(command, FN_OK, p), open, 0) : p \in payloads }
       \cup { Reply(DevFrame(command, FN_ERR_NOT_READY, << >>), open, 0) }

\* a request whose length field is not its length is answered with an error
DevReplies(req, open) ==
    LET command == Peek(req, 1)
    IN IF RD16(req, 2) # Len(req)
       THEN { Reply(DevFrame(command, FN_ERR_INVALID, << >>), open, 0) }
       ELSE IF Peek(req, 0) = FN_DEVICE_CLOCK THEN DevClockReplies(req, open)
       ELSE IF command = FN_CMD_OPEN THEN DevOpenReplies(req, open)
       ELSE IF command = FN_CMD_WRITE THEN DevWriteReplies(req, open)
       ELSE IF command = FN_CMD_READ THEN DevReadReplies(req, open)
       ELSE IF command = FN_CMD_INFO THEN DevInfoReplies(req, open)
       ELSE DevCloseReplies(req, open)

\* what the link does during one exchange
\*   intact:       request and reply arrive as sent
\*   cut:          the end of the reply is lost, the framing layer delivers the
\*                 frame without its last byte
\*   damaged:      the last byte of the reply arrives changed
\*   lost_request: the request never arrives, the wait for a reply times out
\*   lost_reply:   the device acts on the request, its reply never arrives
\*   io:           writing the request to the link fails
\*   crossed:      the request never arrives, and what is received is the
\*                 reply to a request made earlier: four bytes read from
\*                 handle MaxHandle at offset 1
Links == { "intact", "cut", "damaged", "lost_request", "lost_reply", "io" }

Delivered(frame, link) ==
    LET wire == IF link = "cut" THEN SubSeq(frame, 1, Len(frame) - 1)
                ELSE IF link = "damaged"
                     THEN [frame EXCEPT ![Len(frame)] = U8(frame[Len(frame)] + 1)]
                     ELSE frame
    IN fn_slip_decode(fn_slip_encode(wire)).output

\* sent: what was written to the link, the encoded request or nothing
Outcome(result, resp, open, acked, sent) ==
    [result |-> result, resp |-> resp, open |-> open, acked |-> acked, sent |-> sent]

\* a transport whose port counts as open before fn_transport_init
PortNeverClosed(init) == FALSE

\* if (_fd < 0): _fd is -1 until fn_transport_init succeeds, which is when
\* fn_init sets _initialized
PortClosed(init) == init = 0

\* the outcomes of fn_transport_exchange(request, ...) on a link that behaves
\* as link says: FN_OK with the decoded response, or a failure
fn_transport_exchange(request, open, link) ==
    LET received == fn_slip_decode(fn_slip_encode(request)).output
        replies == DevReplies(received, open)
        slip_buf == fn_slip_encode(request)
        crossed == DevFrame(FN_CMD_READ, FN_OK,
                            DevReadPayload(0, MaxHandle, 1, << 76, 65, 84, 69 >>))
    IN IF PortClosed(initialized) THEN { Outcome(FN_ERR_NOT_FOUND, << >>, open, 0, << >>) }
       ELSE IF link = "io" THEN { Outcome(FN_ERR_IO, << >>, open, 0, << >>) }
       ELSE IF link = "lost_request"
       THEN { Outcome(FN_ERR_TIMEOUT, << >>, open, 0, slip_buf) }
       ELSE IF link = "lost_reply"
       THEN { Outcome(FN_ERR_TIMEOUT, << >>, r.open, 0, slip_buf) : r \in replies }
       ELSE IF link = "crossed"
       THEN { Outcome(FN_OK, Delivered(crossed, "intact"), open, 0, slip_buf) }
       ELSE { Outcome(FN_OK, Delivered(r.frame, link), r.open,
                      IF link = "intact" THEN r.acked ELSE 0, slip_buf) : r \in replies }

(***************************************************************************)
(* fn_network.c: the public operations.  Each action is one call, from     *)
(* entry to return; Return is the caller taking the result.                *)
(***************************************************************************)
Call(op, handle, offset, badptr, longurl) ==
    [NoCall EXCEPT !.op = op, !.handle = handle, !.offset = offset,
                   !.badptr = badptr, !.longurl = longurl]

\* the call returns: c is its record, table / open / acc the state it leaves
Ret(c, table, open, acc) ==
    /\ last' = c
    /\ sessions' = table
    /\ devOpen' = open
    /\ accepted' = acc
    /\ steps' = IF << table, open, acc >> = << sessions, devOpen, accepted >>
                THEN steps ELSE steps + 1
    /\ UNCHANGED << initialized, slip, codec, typed, xchg, race >>

\* an early return that drops the session the call addresses
EarlyFreeing(c, code) ==
    Ret([c EXCEPT !.result = code], _free_handle(sessions, c.handle), devOpen, accepted)

\* a return before any exchange
Early(c, code) == Ret([c EXCEPT !.result = code], sessions, devOpen, accepted)

\* a return after the request was sent again and a second exchange was made
LateAfterRetry(c, x, code, out, table, acc) ==
    Ret([c EXCEPT !.result = code, !.nx = 2, !.xres = x.result, !.sent = x.sent \o x.sent,
                  !.resp = x.resp, !.out = out],
        table, x.open, acc)

\* a return after one exchange x
Late(c, x, code, out, table, acc) ==
    Ret([c EXCEPT !.result = code, !.nx = 1, !.xres = x.result, !.sent = x.sent,
                  !.resp = x.resp, !.out = out],
        table, x.open, acc)

\* an fn_init that sets up the table and the transport whenever it is called
InitAgain(transport_result) ==
    /\ Idle
    /\ sessions' = [i \in Slots |-> [sessions[i] EXCEPT !.active = 0]]
    /\ last' = [Call("init", Unset, Unset, FALSE, FALSE)
                  EXCEPT !.result = transport_result, !.xres = transport_result]
    /\ initialized' = IF transport_result # FN_OK THEN initialized ELSE 1
    /\ UNCHANGED << devOpen, accepted, steps, slip, codec, typed, xchg, race >>

\* transport_result: what fn_transport_init returns if it is called
fn_init(transport_result) ==
    /\ Idle
    /\ IF initialized # 0
       THEN /\ last' = [Call("init", Unset, Unset, FALSE, FALSE) EXCEPT !.result = FN_OK]
            /\ UNCHANGED << initialized, sessions >>
       ELSE /\ sessions' = [i \in Slots |-> [sessions[i] EXCEPT !.active = 0]]
            /\ last' = [Call("init", Unset, Unset, FALSE, FALSE)
                          EXCEPT !.result = transport_result, !.xres = transport_result]
            /\ initialized' = IF transport_result # FN_OK THEN initialized ELSE 1
    /\ UNCHANGED << devOpen, accepted, steps, slip, codec, typed, xchg, race >>

\* strncmp(url, "tcp://", 6) == 0
IsTcpUrl(url) == Len(url) >= 6 /\ SubSeq(url, 1, 6) = << 116, 99, 112, 58, 47, 47 >>

OpenFlags(flags) ==
    (IF BitSet(flags, FN_OPEN_TLS) THEN FN_OPEN_FLAG_TLS ELSE 0)
    + (IF BitSet(flags, FN_OPEN_FOLLOW_REDIR) THEN FN_OPEN_FLAG_FOLLOW_REDIR ELSE 0)
    + (IF BitSet(flags, FN_OPEN_ALLOW_EVICT) THEN FN_OPEN_FLAG_ALLOW_EVICT ELSE 0)

\* the slot as fn_open fills it
OpenedSession(resp_handle, resp_flags, url) ==
    [active |-> 1, handle |-> resp_handle,
     is_tcp |-> IF IsTcpUrl(url) THEN 1 ELSE 0,
     needs_body |-> IF BitSet(resp_flags, FN_OPEN_RESP_NEEDS_BODY) THEN 1 ELSE 0,
     write_offset |-> 0, read_offset |-> 0]

\* the body of fn_open, c being the record of the call that runs it
OpenBody(c, handle_null, method, url, flags, link) ==
       /\ Idle
       /\ IF initialized = 0 THEN Early(c, FN_ERR_INVALID)
          ELSE IF handle_null \/ url = NULL THEN Early(c, FN_ERR_INVALID)
          ELSE IF Len(url) > FN_MAX_URL_LEN THEN Early(c, FN_ERR_URL_TOO_LONG)
          ELSE LET req == fn_build_open_packet(method, OpenFlags(flags), url)
               IN IF Len(req) = 0 THEN Early(c, FN_ERR_INVALID)
                  ELSE \E x \in fn_transport_exchange(req, devOpen, link) :
                         LET r == fn_parse_open_response(x.resp, Len(x.resp))
                             slot == _find_free_slot(sessions)
                         IN IF x.result # FN_OK
                            THEN Late(c, x, x.result, NoOut, sessions, accepted)
                            ELSE IF r.result # FN_OK
                            THEN Late(c, x, r.result, NoOut, sessions, accepted)
                            ELSE IF slot < 0
                            THEN Late(c, x, FN_OK, [NoOut EXCEPT !.handle = r.handle],
                                      sessions, accepted)
                            ELSE Late(c, x, FN_OK, [NoOut EXCEPT !.handle = r.handle],
                                      [sessions EXCEPT
                                          ![slot] = OpenedSession(r.handle, r.flags, url)],
                                      [accepted EXCEPT ![slot] = 0])

\* handle_null: the handle pointer is NULL; url: character codes, or NULL;
\* link: how the link behaves if the call gets as far as an exchange
fn_open(handle_null, method, url, flags, link) ==
    OpenBody([Call("open", Unset, Unset, handle_null \/ url = NULL,
                   url # NULL /\ Len(url) > FN_MAX_URL_LEN)
                 EXCEPT !.method = method, !.url = url, !.flags = flags],
             handle_null, method, url, flags, link)

\* the digit characters fn_tcp_open writes for port: one for each of 10000,
\* 1000, 100 and 10 that the remainder p reaches, then the units
PortDigits(port) ==
    LET p4 == IF port >= 10000 THEN port % 10000 ELSE port
        p3 == IF p4 >= 1000 THEN p4 % 1000 ELSE p4
        p2 == IF p3 >= 100 THEN p3 % 100 ELSE p3
        p1 == IF p2 >= 10 THEN p2 % 10 ELSE p2
    IN (IF port >= 10000 THEN << 48 + (port \div 10000) >> ELSE << >>)
       \o (IF p4 >= 1000 THEN << 48 + (p4 \div 1000) >> ELSE << >>)
       \o (IF p3 >= 100 THEN << 48 + (p3 \div 100) >> ELSE << >>)
       \o (IF p2 >= 10 THEN << 48 + (p2 \div 10) >> ELSE << >>)
       \o << 48 + p1 >>

\* "tcp://"
TcpScheme == << 116, 99, 112, 58, 47, 47 >>

\* host: character codes; port: 0..65535
fn_tcp_open(handle_null, host, port, link) ==
    LET c == [Call("tcp_open", Unset, Unset, handle_null, FALSE)
                 EXCEPT !.host = host, !.port = port]
        _tcp_url == TcpScheme \o host \o << 58 >> \o PortDigits(port)
    IN IF 6 + Len(host) > FN_MAX_URL_LEN - 10
       THEN Idle /\ Early(c, FN_ERR_URL_TOO_LONG)
       ELSE OpenBody(c, handle_null, 0, _tcp_url, 0, link)

\* an fn_write that sends whatever offset it is given
WriteOffsetUnchecked(session, offset) == FALSE

\* an fn_write that compares the offset with the read cursor
ReadOffsetMismatch(session, offset) == offset # session.read_offset

\* offset != _sessions[slot].write_offset
WriteOffsetMismatch(session, offset) == offset # session.write_offset

\* data: the bytes to send, or NULL; written_null: the written pointer is NULL
fn_write(handle, offset, data, len, written_null, link) ==
    LET c == [Call("write", handle, offset, data = NULL /\ len > 0, FALSE)
                 EXCEPT !.len = len]
        slot == _find_session(sessions, handle)
    IN /\ Idle
       /\ IF initialized = 0 THEN Early(c, FN_ERR_INVALID)
          ELSE IF handle = FN_INVALID_HANDLE THEN Early(c, FN_ERR_INVALID)
          ELSE IF slot < 0 THEN Early(c, FN_ERR_NOT_FOUND)
          ELSE IF WriteOffsetMismatch(sessions[slot], offset) THEN Early(c, FN_ERR_INVALID)
          ELSE LET req == fn_build_write_packet(handle, offset, data, len)
               IN IF Len(req) = 0 THEN Early(c, FN_ERR_INVALID)
                  ELSE \E x \in fn_transport_exchange(req, devOpen, link) :
                         LET h == fn_parse_response_header(x.resp, Len(x.resp))
                             acc == [accepted EXCEPT ![slot] = @ + x.acked]
                             written == RD16(x.resp, h.data_offset + 10)
                         IN IF x.result # FN_OK
                            THEN Late(c, x, x.result, NoOut, sessions, acc)
                            ELSE IF h.result # FN_OK
                            THEN Late(c, x, h.result, NoOut, sessions, acc)
                            ELSE IF StatusRefused(h.status)
                            THEN Late(c, x, h.status, NoOut, sessions, acc)
                            ELSE IF h.data_len >= 12 /\ ~written_null
                            THEN Late(c, x, FN_OK, [NoOut EXCEPT !.written = written],
                                      [sessions EXCEPT ![slot].write_offset =
                                                           U32(@ + written)],
                                      acc)
                            ELSE IF ~written_null
                            THEN Late(c, x, FN_OK, [NoOut EXCEPT !.written = 0],
                                      sessions, acc)
                            ELSE Late(c, x, FN_OK, NoOut, sessions, acc)

\* buf_null, bytes_read_null: the pointer is NULL
fn_read(handle, offset, buf_null, max_len, bytes_read_null, link) ==
    LET c == [Call("read", handle, offset, buf_null \/ bytes_read_null, FALSE)
                 EXCEPT !.len = max_len]
        slot == _find_session(sessions, handle)
    IN /\ Idle
       /\ IF initialized = 0 THEN Early(c, FN_ERR_INVALID)
          ELSE IF handle = FN_INVALID_HANDLE \/ buf_null \/ bytes_read_null
          THEN Early(c, FN_ERR_INVALID)
          ELSE IF slot < 0 THEN Early(c, FN_ERR_NOT_FOUND)
          ELSE LET req == fn_build_read_packet(handle, offset, max_len)
               IN IF Len(req) = 0 THEN Early(c, FN_ERR_INVALID)
                  ELSE \E x \in fn_transport_exchange(req, devOpen, link) :
                         LET r == fn_parse_read_response(x.resp, Len(x.resp), << >>, max_len)
                             out == [NoOut EXCEPT !.bytes_read = r.data_len,
                                                  !.flags = r.flags, !.buf = r.copied]
                         IN IF x.result # FN_OK
                            THEN Late(c, x, x.result, NoOut, sessions, accepted)
                            ELSE IF r.result # FN_OK
                            THEN Late(c, x, r.result, NoOut, sessions, accepted)
                            ELSE IF sessions[slot].is_tcp # 0 /\ r.data_len > 0
                            THEN Late(c, x, FN_OK, out,
                                      [sessions EXCEPT ![slot].read_offset =
                                                           U32(@ + r.data_len)],
                                      accepted)
                            ELSE Late(c, x, FN_OK, out, sessions, accepted)

fn_info(handle, link) ==
    LET c == Call("info", handle, Unset, FALSE, FALSE)
        slot == _find_session(sessions, handle)
    IN /\ Idle
       /\ IF initialized = 0 THEN Early(c, FN_ERR_INVALID)
          ELSE IF handle = FN_INVALID_HANDLE THEN Early(c, FN_ERR_INVALID)
          ELSE IF slot < 0 THEN Early(c, FN_ERR_NOT_FOUND)
          ELSE LET req == fn_build_info_packet(handle)
               IN IF Len(req) = 0 THEN Early(c, FN_ERR_INVALID)
                  ELSE \E x \in fn_transport_exchange(req, devOpen, link) :
                         LET r == fn_parse_info_response(x.resp, Len(x.resp))
                         IN IF x.result # FN_OK
                            THEN Late(c, x, x.result, NoOut, sessions, accepted)
                            ELSE Late(c, x, r.result,
                                      [NoOut EXCEPT !.http_status = r.http_status,
                                                    !.content_length = r.content_length,
                                                    !.flags = r.flags],
                                      sessions, accepted)

fn_close(handle, link) ==
    LET c == Call("close", handle, Unset, FALSE, FALSE)
    IN /\ Idle
       /\ IF initialized = 0 THEN Early(c, FN_ERR_INVALID)
          ELSE IF handle = FN_INVALID_HANDLE THEN Early(c, FN_ERR_INVALID)
          ELSE LET req == fn_build_close_packet(handle)
               IN IF Len(req) = 0 THEN Early(c, FN_ERR_INVALID)
                  ELSE \E x \in fn_transport_exchange(req, devOpen, link) :
                         Late(c, x, x.result, NoOut,
                              _free_handle(sessions, handle), accepted)

\* fn_clock_<op>: arg_null says that a pointer argument is NULL; the time
\* passed is the bytes 1..8, the format 0, the time zone "UT"
fn_clock(op, arg_null, link) ==
    LET c == Call(op, Unset, Unset, arg_null, FALSE)
        req == fn_clock_request(op, << 1, 2, 3, 4, 5, 6, 7, 8 >>, 0, << 85, 84 >>)
    IN /\ Idle
       /\ IF arg_null THEN Early(c, FN_ERR_INVALID)
          ELSE \E x \in fn_transport_exchange(req, devOpen, link) :
                 LET r == fn_clock_response(op, x.resp, Len(x.resp))
                 IN IF x.result # FN_OK
                    THEN Late(c, x, x.result, NoOut, sessions, accepted)
                    ELSE Late(c, x, r.result,
                              IF r.stored THEN [NoOut EXCEPT !.buf = r.out] ELSE NoOut,
                              sessions, accepted)

\* fn_is_ready: return fn_transport_ready(), 0 while _fd < 0
fn_is_ready ==
    /\ Idle
    /\ Early(Call("is_ready", Unset, Unset, FALSE, FALSE),
             IF PortClosed(initialized) THEN 0 ELSE 1)

\* the caller has taken the result
Return ==
    /\ ~Idle
    /\ last' = NoCall
    /\ UNCHANGED << initialized, sessions, devOpen, accepted, steps, slip, codec, typed, xchg, race >>

(***************************************************************************)
(* Spec: the library with its caller, the link and the device              *)
(***************************************************************************)
\* "tcp://a", "http://a" and a URL of FN_MAX_URL_LEN + 1 characters
TcpUrl == << 116, 99, 112, 58, 47, 47, 97 >>
HttpUrl == << 104, 116, 116, 112, 58, 47, 47, 97 >>
LongUrl == [i \in 1..(FN_MAX_URL_LEN + 1) |-> 97]

\* data of the Write calls: MaxDataLen bytes
WriteData == [i \in 1..MaxDataLen |-> 64 + i]

\* the handles the caller passes: none, and every one the device can issue
CallHandles == 0..MaxHandle

\* the handles the caller of Spec passes: none, and every one the device can
\* have issued after MaxSteps calls
SpecHandles == 0..MaxSteps

\* the offset a caller who follows the session passes: its write cursor
ExpectedOffset(handle) ==
    LET slot == _find_session(sessions, handle)
    IN IF slot >= 0 THEN sessions[slot].write_offset ELSE 0

\* fn_open(handle, method, url, flags) calls with the link's behaviour:
\* << handle is NULL, method, url, flags, link >>
OpenCalls ==
    { << FALSE, t[1], t[2], 0, link >> :
          t \in { << 0, TcpUrl >>, << FN_METHOD_POST, HttpUrl >> },
          link \in { "intact", "cut", "io" } }
    \cup { << TRUE, 0, TcpUrl, 0, "intact" >>, << FALSE, 0, NULL, 0, "intact" >>,
           << FALSE, 0, LongUrl, 0, "intact" >>, << FALSE, 0, TcpUrl, 0, "damaged" >> }

\* fn_tcp_open(handle, host, port) calls: << handle is NULL, host, port, link >>
\* with the host "a" and ports of one to five digits, with and without zero
\* digits, and with a host one character too long
TcpOpenCalls ==
    { << FALSE, << 97 >>, port, "intact" >> :
          port \in { 0, 7, 80, 777, 7777, 8080, 10005, 65535 } }
    \cup { << FALSE, [i \in 1..(FN_MAX_URL_LEN - 15) |-> 97], 80, "intact" >>,
           << TRUE, << 97 >>, 80, "intact" >> }

\* fn_write(handle, offset, data, len, written) calls at any offset:
\* << handle, offset, data, len, written is NULL, link >>
WriteCalls ==
    { << h, off, WriteData, n, FALSE, "intact" >> :
          h \in SpecHandles, off \in 0..MaxCursor, n \in { 0, MaxDataLen } }

\* fn_write calls at the expected offset: << data, len, written is NULL, link >>
WriteCallsInOrder ==
    { << WriteData, MaxDataLen, FALSE, link >> : link \in Links \ { "intact" } }
    \cup { << WriteData, MaxDataLen, TRUE, "intact" >>, << NULL, 0, TRUE, "intact" >>,
           << NULL, 1, FALSE, "intact" >> }
    \cup { << NULL, 0, FALSE, link >> : link \in Links }

\* fn_read(handle, offset, buf, max_len, bytes_read) calls:
\* << handle, offset, buf is NULL, max_len, bytes_read is NULL, link >>
ReadCalls ==
    { << h, c[1], FALSE, c[2], FALSE, "intact" >> :
          h \in SpecHandles, c \in { << 0, 4 >>, << 0, 1 >>, << 2, 4 >> } }
    \cup { << h, 0, FALSE, 4, FALSE, link >> :
           h \in SpecHandles \ {0}, link \in Links \ { "intact", "lost_reply" } }
    \cup { << h, 0, b[1], 4, b[2], "intact" >> :
           h \in SpecHandles \ {0}, b \in { << TRUE, FALSE >>, << FALSE, TRUE >> } }
    \cup { << 1, 0, FALSE, 4, FALSE, "crossed" >> }

\* fn_info(handle) calls: << handle, link >>
InfoCalls ==
    { << h, link >> : h \in SpecHandles \ {0}, link \in Links \ { "lost_reply" } }
    \cup { << 0, "intact" >>, << 1, "crossed" >> }

\* fn_close(handle) calls: << handle, link >>
CloseCalls ==
    { << h, link >> : h \in SpecHandles \ {0}, link \in Links }
    \cup { << 0, "intact" >> }

SlipIdle == [pc |-> "idle", input |-> << >>, encoded |-> << >>, decoded |-> << >>, len |-> 0]
CodecIdle == [pc |-> "idle", args |-> << >>, packet |-> << >>, parsed |-> HeaderFail(Unset)]
\* pc: idle, send (the write loop), recv (the read loop) or done; fd: the
\* static _fd, negative while the port is not open; request: the argument; slip_buf,
\* total, raw_buf (its first raw_len bytes), timeout_ms: the locals; wire: the
\* bytes written to the link so far; iter: the parity of the number of loop
\* iterations made; decoded: raw_buf was given to fn_slip_decode; result,
\* (timeout_ms is Unset until the read loop is entered)
\* resp_len, response: what the call returned
\* lock: the callers run fn_open under one lock; owner: the caller holding it
\* (0: nobody); call[t], for caller t: pc, the position in fn_open (idle,
\* parsed: after fn_parse_open_response, found: after _find_free_slot, done),
\* and the locals resp_handle, resp_flags, slot and the value returned
Callers == { 1, 2 }
RaceIdle ==
    [lock |-> FALSE, owner |-> 0,
     call |-> [t \in Callers |->
                  [pc |-> "idle", resp_handle |-> Unset, resp_flags |-> Unset,
                   slot |-> Unset, result |-> Unset]]]

XchgIdle ==
    [pc |-> "idle", fd |-> 0 - 1, request |-> << >>, slip_buf |-> << >>, total |-> 0,
     wire |-> << >>, raw_buf |-> << >>, timeout_ms |-> Unset, iter |-> 0,
     decoded |-> FALSE, result |-> Unset, resp_len |-> 0, response |-> << >>]

\* data_max: the capacity of the caller's buffer in a Read
TypedIdle == [pc |-> "idle", response |-> << >>, data_max |-> 0, parsed |-> HeaderFail(Unset)]

NetInit ==
    /\ initialized = 0
    /\ sessions = [i \in Slots |-> ZeroSession]
    /\ devOpen = {}
    /\ accepted = [i \in Slots |-> 0]
    /\ steps = 0
    /\ last = NoCall

Init ==
    /\ NetInit
    /\ slip = SlipIdle
    /\ codec = CodecIdle
    /\ typed = TypedIdle
    /\ xchg = XchgIdle
    /\ race = RaceIdle

\* the cursors of the session a call addresses are below MaxCursor
CursorsBelowBound(handle) ==
    LET slot == _find_session(sessions, handle)
    IN slot >= 0 => /\ sessions[slot].write_offset < MaxCursor
                    /\ sessions[slot].read_offset < MaxCursor
                    /\ accepted[slot] < MaxCursor

\* the caller makes a call that may change the state only while fewer than
\* budget calls have changed it
Budget(budget) == steps < budget

Next ==
    \/ \E t \in { FN_OK, FN_ERR_NOT_FOUND } : fn_init(t)
    \/ \E c \in OpenCalls :
          Budget(MaxSteps) /\ fn_open(c[1], c[2], c[3], c[4], c[5])
    \/ \E c \in TcpOpenCalls :
          Budget(MaxSteps) /\ fn_tcp_open(c[1], c[2], c[3], c[4])
    \/ \E c \in WriteCalls :
          /\ Budget(MaxSteps) /\ CursorsBelowBound(c[1])
          /\ fn_write(c[1], c[2], c[3], c[4], c[5], c[6])
    \/ \E h \in SpecHandles \ {0}, c \in WriteCallsInOrder :
          /\ Budget(MaxSteps) /\ CursorsBelowBound(h)
          /\ fn_write(h, ExpectedOffset(h), c[1], c[2], c[3], c[4])
    \/ \E c \in ReadCalls :
          /\ Budget(MaxSteps) /\ CursorsBelowBound(c[1])
          /\ fn_read(c[1], c[2], c[3], c[4], c[5], c[6])
    \/ \E c \in InfoCalls : Budget(MaxSteps) /\ fn_info(c[1], c[2])
    \/ \E c \in CloseCalls : Budget(MaxSteps) /\ fn_close(c[1], c[2])
    \/ Return

Spec == Init /\ [][Next]_vars

(***************************************************************************)
(* SpecClock: every public operation, the clock operations included, under *)
(* a caller that makes MaxSteps - 1 calls that change anything             *)
(***************************************************************************)
\* fn_clock_<op> calls: << op, a pointer argument is NULL, link >>
ClockCalls ==
    { << op, FALSE, link >> : op \in ClockOps, link \in Links }
    \cup { << op, TRUE, "intact" >> : op \in ClockOps }

ClockNext ==
    \/ \E t \in { FN_OK, FN_ERR_IO } : fn_init(t)
    \/ fn_is_ready
    \/ \E c \in OpenCalls :
          Budget(MaxSteps - 1) /\ fn_open(c[1], c[2], c[3], c[4], c[5])
    \/ \E c \in TcpOpenCalls :
          Budget(MaxSteps - 1) /\ fn_tcp_open(c[1], c[2], c[3], c[4])
    \/ \E h \in SpecHandles \ {0}, c \in WriteCallsInOrder :
          /\ Budget(MaxSteps - 1) /\ CursorsBelowBound(h)
          /\ fn_write(h, ExpectedOffset(h), c[1], c[2], c[3], c[4])
    \/ \E c \in ReadCalls :
          /\ Budget(MaxSteps - 1) /\ CursorsBelowBound(c[1])
          /\ fn_read(c[1], c[2], c[3], c[4], c[5], c[6])
    \/ \E c \in InfoCalls : Budget(MaxSteps - 1) /\ fn_info(c[1], c[2])
    \/ \E c \in CloseCalls : Budget(MaxSteps - 1) /\ fn_close(c[1], c[2])
    \/ \E c \in ClockCalls : fn_clock(c[1], c[2], c[3])
    \/ Return

SpecClock == Init /\ [][ClockNext]_vars

(***************************************************************************)
(* SpecTable: the session table under a caller that opens, queries and     *)
(* closes sessions, long enough to fill the table and go past it           *)
(***************************************************************************)
TableOpenCalls ==
    { << FALSE, 0, TcpUrl, f, link >> :
          f \in { 0, FN_OPEN_ALLOW_EVICT }, link \in { "intact", "lost_reply" } }

TableCloseCalls ==
    { << h, link >> : h \in CallHandles, link \in { "intact", "lost_request" } }

TableInfoCalls == { << h, "intact" >> : h \in CallHandles }

TableNext ==
    \/ fn_init(FN_OK)
    \/ \E c \in TableOpenCalls :
          Budget(MaxTableSteps) /\ fn_open(c[1], c[2], c[3], c[4], c[5])
    \/ \E c \in TableInfoCalls : Budget(MaxTableSteps) /\ fn_info(c[1], c[2])
    \/ \E c \in TableCloseCalls : Budget(MaxTableSteps) /\ fn_close(c[1], c[2])
    \/ Return

SpecTable == Init /\ [][TableNext]_vars

(***************************************************************************)
(* SpecAlloc: the table helpers called one at a time, on the tables that   *)
(* fn_init, fn_open, fn_write and fn_close leave                           *)
(***************************************************************************)
\* a call of _alloc_handle(); the handle returned is kept in out.handle
AllocHandle ==
    LET a == _alloc_handle(sessions)
    IN /\ Idle
       /\ Ret([Call("alloc", Unset, Unset, FALSE, FALSE) EXCEPT !.out.handle = a.handle],
              a.table, devOpen, accepted)

\* a call of _find_session(handle); the slot returned is kept in result
FindSession(handle) ==
    /\ Idle
    /\ Ret([Call("find", handle, Unset, FALSE, FALSE)
               EXCEPT !.result = _find_session(sessions, handle)],
           sessions, devOpen, accepted)

\* a call of _free_handle(handle)
FreeHandle(handle) ==
    /\ Idle
    /\ Ret(Call("free", handle, Unset, FALSE, FALSE), _free_handle(sessions, handle),
           devOpen, accepted)

AllocNext ==
    \/ fn_init(FN_OK)
    \/ Budget(MaxTableSteps) /\ fn_open(FALSE, 0, TcpUrl, 0, "intact")
    \/ \E h \in Handles :
          /\ Budget(MaxTableSteps) /\ CursorsBelowBound(h)
          /\ fn_write(h, ExpectedOffset(h), WriteData, MaxDataLen, FALSE, "intact")
    \/ \E h \in Handles : Budget(MaxTableSteps) /\ fn_close(h, "intact")
    \/ Budget(MaxTableSteps) /\ AllocHandle
    \/ \E h \in CallHandles : FindSession(h)
    \/ \E h \in CallHandles : Budget(MaxTableSteps) /\ FreeHandle(h)
    \/ Return

SpecAlloc == Init /\ [][AllocNext]_vars

(***************************************************************************)
(* SpecSlip: fn_slip_encode and fn_slip_decode on every byte sequence of   *)
(* up to MaxSlipLen bytes over the framing bytes and two ordinary ones     *)
(***************************************************************************)
SlipBytes == { 0, 65, SLIP_END, SLIP_ESCAPE, SLIP_ESC_END, SLIP_ESC_ESC }
SlipInputs == UNION { [1..n -> SlipBytes] : n \in 0..MaxSlipLen }

SlipInit ==
    /\ NetInit
    /\ codec = CodecIdle
    /\ typed = TypedIdle
    /\ xchg = XchgIdle
    /\ race = RaceIdle
    /\ slip \in { [SlipIdle EXCEPT !.pc = "input", !.input = b] : b \in SlipInputs }

SlipEncode ==
    /\ slip.pc = "input"
    /\ slip' = [slip EXCEPT !.pc = "encoded", !.encoded = fn_slip_encode(slip.input)]
    /\ UNCHANGED << netVars, codec, typed, xchg, race >>

SlipDecode ==
    /\ slip.pc = "encoded"
    /\ LET d == fn_slip_decode(slip.encoded)
       IN slip' = [slip EXCEPT !.pc = "decoded", !.decoded = d.output, !.len = d.len]
    /\ UNCHANGED << netVars, codec, typed, xchg, race >>

\* fn_slip_decode on the input as it is, as on bytes read from the link
SlipDecodeRaw ==
    /\ slip.pc = "input"
    /\ LET d == fn_slip_decode(slip.input)
       IN slip' = [slip EXCEPT !.pc = "raw", !.decoded = d.output, !.len = d.len]
    /\ UNCHANGED << netVars, codec, typed, xchg, race >>

SlipNext == SlipEncode \/ SlipDecode \/ SlipDecodeRaw

SpecSlip == SlipInit /\ [][SlipNext]_vars

(***************************************************************************)
(* SpecChecksum: the loop of fn_calc_checksum, one pass at a time, on every *)
(* buffer of up to MaxSumLen bytes over SumBytes; codec holds the locals    *)
(***************************************************************************)
SumBytes == { 0, 1, 65, SLIP_END, 255 }
SumInputs == UNION { [1..n -> SumBytes] : n \in 0..MaxSumLen }

\* entry of fn_calc_checksum(data, len): chk = 0, i = 0
SumInit ==
    /\ NetInit
    /\ slip = SlipIdle
    /\ typed = TypedIdle
    /\ xchg = XchgIdle
    /\ race = RaceIdle
    /\ codec \in { [pc |-> "loop", data |-> d, len |-> Len(d), i |-> 0, chk |-> 0,
                    result |-> Unset] : d \in SumInputs }

\* for (i = 0; i < len; i++) { chk += data[i]; chk = ((chk >> 8) + (chk & 0xFF)) & 0xFFFF; }
SumPass ==
    /\ codec.pc = "loop"
    /\ codec.i < codec.len
    /\ codec' = [codec EXCEPT !.chk = ChecksumStep(codec.chk, Peek(codec.data, codec.i)),
                              !.i = codec.i + 1]
    /\ UNCHANGED << netVars, slip, typed, xchg, race >>

\* return (uint8_t)(chk & 0xFF)
SumReturn ==
    /\ codec.pc = "loop"
    /\ codec.i >= codec.len
    /\ codec' = [codec EXCEPT !.pc = "done", !.result = U8(codec.chk)]
    /\ UNCHANGED << netVars, slip, typed, xchg, race >>

SumNext == SumPass \/ SumReturn

SpecChecksum == SumInit /\ [][SumNext]_vars

(***************************************************************************)
(* SpecCodec: every request builder, and fn_parse_response_header on what  *)
(* it built                                                                *)
(***************************************************************************)
CodecHandles == { 0, 1, 258, 65535 }
CodecOffsets == { 0, 1, 66051, 2147483647 }
CodecCounts == { 0, 512, 65535 }
CodecData == UNION { [1..n -> { 0, SLIP_END, 255 }] : n \in 0..MaxDataLen }
CodecUrls == { << >>, TcpUrl, HttpUrl, [i \in 1..FN_MAX_URL_LEN |-> 97] }

\* the longest data an fn_write packet of FN_MAX_PACKET_SIZE bytes holds, and
\* the shortest whose packet no longer fits 1024 bytes when every data byte
\* is escaped
FullPacketData == FN_MAX_PACKET_SIZE - FN_HEADER_SIZE - 9
HalfPacketData == (FullPacketData \div 2) + 1

\* args: << command, handle, offset, max_bytes, data, method, flags, url >>
CodecArgs ==
    { << FN_CMD_OPEN, 0, 0, 0, << >>, m, f, u >> :
          m \in { 0, 1, FN_METHOD_POST }, f \in { 0, 8, 11 }, u \in CodecUrls }
    \cup { << FN_CMD_READ, h, o, n, << >>, 0, 0, << >> >> :
          h \in CodecHandles, o \in CodecOffsets, n \in CodecCounts }
    \cup { << FN_CMD_WRITE, h, o, 0, d, 0, 0, << >> >> :
          h \in CodecHandles, o \in CodecOffsets, d \in CodecData }
    \cup { << c, h, 0, 0, << >>, 0, 0, << >> >> :
          c \in { FN_CMD_CLOSE, FN_CMD_INFO }, h \in CodecHandles }
    \cup { << FN_CMD_WRITE, 1, 0, 0, [i \in 1..n |-> b], 0, 0, << >> >> :
          n \in { HalfPacketData, FullPacketData, FullPacketData + 1 },
          b \in { 0, SLIP_END } }

CodecInit ==
    /\ NetInit
    /\ slip = SlipIdle
    /\ typed = TypedIdle
    /\ xchg = XchgIdle
    /\ race = RaceIdle
    /\ codec \in { [CodecIdle EXCEPT !.pc = "args", !.args = a] : a \in CodecArgs }

Built(a) ==
    IF a[1] = FN_CMD_OPEN THEN fn_build_open_packet(a[6], a[7], a[8])
    ELSE IF a[1] = FN_CMD_READ THEN fn_build_read_packet(a[2], a[3], a[4])
    ELSE IF a[1] = FN_CMD_WRITE THEN fn_build_write_packet(a[2], a[3], a[5], Len(a[5]))
    ELSE IF a[1] = FN_CMD_CLOSE THEN fn_build_close_packet(a[2])
    ELSE fn_build_info_packet(a[2])

CodecBuild ==
    /\ codec.pc = "args"
    /\ codec' = [codec EXCEPT !.pc = "built", !.packet = Built(codec.args)]
    /\ UNCHANGED << netVars, slip, typed, xchg, race >>

\* a packet that overran the FN_MAX_PACKET_SIZE bytes of its buffer is not
\* followed further
CodecParse ==
    /\ codec.pc = "built"
    /\ Len(codec.packet) <= FN_MAX_PACKET_SIZE
    /\ codec' = [codec EXCEPT !.pc = "parsed",
                              !.parsed = fn_parse_response_header(codec.packet,
                                                                  Len(codec.packet))]
    /\ UNCHANGED << netVars, slip, typed, xchg, race >>

CodecNext == CodecBuild \/ CodecParse

SpecCodec == CodecInit /\ [][CodecNext]_vars

(***************************************************************************)
(* SpecParse: every typed response parser on response frames with a valid  *)
(* header: each status, payloads below, at and above each minimum length,  *)
(* with the known and an unknown version byte; and fn_parse_response_header *)
(* alone on frames with every field descriptor, whole and cut short        *)
(***************************************************************************)
\* payloads of every length around the minimum lengths, with the known and
\* an unknown version byte; Read payloads with up to MaxDataLen + 1 data
\* bytes and with "PONG\r\n"; an Open, an Info and two clock payloads; Read
\* payloads that carry no or one data byte and declare MaxDataLen or 200
TypedPayloads ==
    { [i \in 1..n |-> IF i = 1 THEN v ELSE 0] :
          n \in { 0, 1, 2, 5, 6, 11, 12, 15, 16 }, v \in { FN_PROTOCOL_VERSION, 2 } }
    \cup { DevReadPayload(f, 1, 0, d) :
              f \in { 0, FN_READ_RESP_EOF },
              d \in { [i \in 1..n |-> 64 + i] : n \in 0..(MaxDataLen + 1) }
                    \cup { << 80, 79, 78, 71, 13, 10 >> } }
    \cup { DevOpenPayload(FN_OPEN_RESP_ACCEPTED, 1), DevInfoPayload(6, 1, 200, 5),
           << FN_CLOCK_VERSION, 0, 0, 0, 1, 2, 3, 4, 5, 6, 7, 8 >>,
           << FN_CLOCK_VERSION, 2, 85, 84 >> }
    \cup { [DevReadPayload(0, 1, 0, d) EXCEPT ![11] = n] :
              d \in { << >>, << 65 >> }, n \in { MaxDataLen, 200 } }

\* a response whose descriptor (5) announces one 2-byte field
WideFrame(status, payload) ==
    LET total_len == FN_HEADER_SIZE + 2 + Len(payload)
        body == << FN_DEVICE_NETWORK, FN_CMD_READ, total_len % 256,
                   (total_len \div 256) % 256, 0, 5 >> \o LE16(status) \o payload
    IN [body EXCEPT ![5] = fn_calc_checksum(body, Len(body))]

TypedResponses ==
    { DevFrame(FN_CMD_READ, st, p) :
          st \in { FN_OK, FN_ERR_BUSY, FN_ERR_NOT_READY }, p \in TypedPayloads }
    \cup { WideFrame(st, DevInfoPayload(6, 1, 200, 5)) : st \in { 0, 4, 256, 260 } }

\* responses with a valid length field and checksum whose descriptor byte
\* and the bytes after it are tail: every tail of up to MaxTailLen bytes over
\* the eight field descriptors and two bytes with the continuation bit, and
\* four tails with a 4-byte field or a continued descriptor
HeaderFrames ==
    LET frame(tail) ==
            LET total_len == FN_HEADER_SIZE - 1 + Len(tail)
                body == << FN_DEVICE_NETWORK, FN_CMD_READ, total_len % 256,
                           (total_len \div 256) % 256, 0 >> \o tail
            IN [body EXCEPT ![5] = fn_calc_checksum(body, Len(body))]
    IN { frame(tail) :
           tail \in UNION { [1..n -> (0..7) \cup { 128, 132 }] : n \in 1..MaxTailLen }
                    \cup { << 7, 0, 0, 0, 0 >>, << 7, 0, 0, 1, 0 >>, << 7, 4, 0, 0, 0, 9 >>,
                           << 128, 133, 0, 1, 9 >> } }

ParseInit ==
    /\ NetInit
    /\ slip = SlipIdle
    /\ codec = CodecIdle
    /\ xchg = XchgIdle
    /\ race = RaceIdle
    /\ typed \in { [TypedIdle EXCEPT !.pc = "input", !.response = r, !.data_max = m] :
                       r \in TypedResponses, m \in { 0, 1, MaxDataLen, 512 } }
                \cup { [TypedIdle EXCEPT !.pc = "frame", !.response = r] :
                          r \in HeaderFrames }

Parsed(parser, result) ==
    /\ typed.pc = "input"
    /\ typed' = [typed EXCEPT !.pc = parser, !.parsed = result]
    /\ UNCHANGED << netVars, slip, codec, xchg, race >>

ParseOpen ==
    Parsed("open", fn_parse_open_response(typed.response, Len(typed.response)))

ParseRead ==
    Parsed("read", fn_parse_read_response(typed.response, Len(typed.response),
                                          << >>, typed.data_max))

ParseInfo ==
    Parsed("info", fn_parse_info_response(typed.response, Len(typed.response)))

ParseClock(op) ==
    Parsed(op, fn_clock_response(op, typed.response, Len(typed.response)))

\* fn_parse_response_header alone, on a frame
ParseHeader ==
    /\ typed.pc = "frame"
    /\ typed' = [typed EXCEPT !.pc = "header",
                              !.parsed = fn_parse_response_header(typed.response,
                                                                  Len(typed.response))]
    /\ UNCHANGED << netVars, slip, codec, xchg, race >>

ParseNext ==
    \/ ParseHeader
    \/ ParseOpen
    \/ ParseRead
    \/ ParseInfo
    \/ \E op \in ClockOps : ParseClock(op)

SpecParse == ParseInit /\ [][ParseNext]_vars

(***************************************************************************)
(* SpecExchange: one call of fn_transport_exchange (Linux serial           *)
(* transport), one action per turn of its write loop and of its read loop. *)
(* The link decides what each write, select and read returns.  raw_buf     *)
(* holds RawBufSize bytes here (1024 in the code).                         *)
(***************************************************************************)
\* timeout_ms = 5000; tv.tv_usec = 100000, timeout_ms -= 100
RECV_TIMEOUT_MS == 5000
RECV_POLL_MS == 100

\* the bytes the link delivers: the sentinel, the escape byte, and 0xDC,
\* which is an ordinary byte unless it follows the escape byte
XBytes == { SLIP_END, SLIP_ESCAPE, SLIP_ESC_END }

\* what one read can return when room bytes of raw_buf are free
XChunks(room) ==
    UNION { [1..n -> XBytes] : n \in 1..(IF room < 2 THEN room ELSE 2) }

\* raw_len >= 2 && raw_buf[0] == SLIP_END && raw_buf[raw_len - 1] == SLIP_END
FrameComplete(raw_buf) ==
    /\ Len(raw_buf) >= 2
    /\ raw_buf[1] = SLIP_END
    /\ raw_buf[Len(raw_buf)] = SLIP_END

\* an exchange that takes every decode result as a response
DecodeNeverFails(resp_len) == FALSE

\* if (*resp_len == 0)
DecodeFailed(resp_len) == resp_len = 0

\* a wait that goes on after the budget has reached zero
BudgetNeverSpent(timeout_ms) == FALSE

\* if (timeout_ms == 0)
BudgetSpent(timeout_ms) == timeout_ms = 0

\* the call returns code; x holds the locals at that point
XReturn(x, code) ==
    /\ xchg' = [x EXCEPT !.pc = "done", !.result = code]
    /\ UNCHANGED << netVars, slip, codec, typed, race >>

\* the loop goes round once more
XContinue(x) ==
    /\ xchg' = [x EXCEPT !.iter = 1 - xchg.iter]
    /\ UNCHANGED << netVars, slip, codec, typed, race >>

\* after the read loop: *resp_len = fn_slip_decode(raw_buf, raw_len, response)
XDecode(x) ==
    LET d == fn_slip_decode(x.raw_buf)
    IN IF DecodeFailed(d.len)
       THEN XReturn([x EXCEPT !.decoded = TRUE, !.resp_len = d.len], FN_ERR_IO)
       ELSE XReturn([x EXCEPT !.decoded = TRUE, !.resp_len = d.len,
                              !.response = d.output], FN_OK)

\* entry: the argument checks and fn_slip_encode
XStart ==
    /\ xchg.pc = "idle"
    /\ LET slip_buf == fn_slip_encode(xchg.request)
       IN IF xchg.fd < 0 THEN XReturn(xchg, FN_ERR_NOT_FOUND)
          ELSE IF Len(xchg.request) = 0 THEN XReturn(xchg, FN_ERR_INVALID)
          ELSE IF Len(slip_buf) = 0 THEN XReturn(xchg, FN_ERR_IO)
          ELSE /\ xchg' = [xchg EXCEPT !.pc = "send", !.slip_buf = slip_buf, !.total = 0]
               /\ UNCHANGED << netVars, slip, codec, typed, race >>

\* n = write(_fd, slip_buf + total, slip_len - total) with n >= 0; when all
\* is written: tcdrain, tcflush, the 10 ms sleep, raw_len = 0, timeout_ms = 5000
XWrite(n) ==
    /\ xchg.pc = "send"
    /\ n \in 0..(Len(xchg.slip_buf) - xchg.total)
    /\ LET x == [xchg EXCEPT !.total = xchg.total + n,
                             !.wire = xchg.wire \o
                                      [k \in 1..n |-> xchg.slip_buf[xchg.total + k]]]
       IN IF x.total < Len(x.slip_buf) THEN XContinue(x)
          ELSE XContinue([x EXCEPT !.pc = "recv", !.raw_buf = << >>,
                                   !.timeout_ms = RECV_TIMEOUT_MS])

\* write returned -1 with EAGAIN and select reported the link writable
XWriteBlocked ==
    /\ xchg.pc = "send"
    /\ XContinue(xchg)

\* write failed, or select did not report the link writable within 1 s
XSendFailed ==
    /\ xchg.pc = "send"
    /\ XReturn(xchg, FN_ERR_IO)

\* select returned 0: 100 ms passed with nothing to read
XIdlePoll ==
    /\ xchg.pc = "recv"
    /\ IF FrameComplete(xchg.raw_buf) THEN XDecode(xchg)
       ELSE LET x == [xchg EXCEPT !.timeout_ms = U16(xchg.timeout_ms - RECV_POLL_MS)]
            IN IF BudgetSpent(x.timeout_ms) THEN XReturn(x, FN_ERR_TIMEOUT)
               ELSE XContinue(x)

\* select reported the link readable and read returned -1 with EAGAIN
XReadBlocked ==
    /\ xchg.pc = "recv"
    /\ XContinue(xchg)

\* select failed, read failed, or read returned 0 (end of file)
XRecvFailed ==
    /\ xchg.pc = "recv"
    /\ XReturn(xchg, FN_ERR_IO)

\* a read after which the wait starts again with the whole budget
XReadReplenishing(chunk) ==
    /\ xchg.pc = "recv"
    /\ chunk \in XChunks(RawBufSize - Len(xchg.raw_buf))
    /\ LET x == [xchg EXCEPT !.raw_buf = xchg.raw_buf \o chunk,
                             !.timeout_ms = RECV_TIMEOUT_MS]
       IN IF FrameComplete(x.raw_buf) THEN XDecode(x)
          ELSE IF Len(x.raw_buf) < RawBufSize THEN XContinue(x)
          ELSE XDecode(x)

\* n = read(_fd, raw_buf + raw_len, sizeof(raw_buf) - raw_len) with n > 0
XRead(chunk) ==
    /\ xchg.pc = "recv"
    /\ chunk \in XChunks(RawBufSize - Len(xchg.raw_buf))
    /\ LET x == [xchg EXCEPT !.raw_buf = xchg.raw_buf \o chunk]
       IN IF FrameComplete(x.raw_buf) THEN XDecode(x)
          ELSE IF Len(x.raw_buf) < RawBufSize THEN XContinue(x)
          ELSE XDecode(x)

\* the port not open, or open with a request: none, one byte, or a sentinel
\* followed by a byte
XInit ==
    /\ NetInit
    /\ slip = SlipIdle
    /\ codec = CodecIdle
    /\ typed = TypedIdle
    /\ race = RaceIdle
    /\ xchg \in { [XchgIdle EXCEPT !.request = << 65 >>] }
                \cup { [XchgIdle EXCEPT !.fd = 3, !.request = r] :
                           r \in { << >>, << 65 >>, << SLIP_END, 65 >> } }

XNext ==
    \/ XStart
    \/ \E n \in 0..2 : XWrite(n)
    \/ XWriteBlocked
    \/ XSendFailed
    \/ XIdlePoll
    \/ XReadBlocked
    \/ XRecvFailed
    \/ \E chunk \in XChunks(2) : XRead(chunk)

SpecExchange == XInit /\ [][XNext]_vars

\* the process runs: a call that can take a step takes one
SpecExchangeLive == XInit /\ [][XNext]_vars /\ WF_vars(XNext)

(***************************************************************************)
(* SpecRace: two callers inside fn_open at the same time, with and without *)
(* a lock around the call.  A caller's steps are the exchange with the     *)
(* parse of the response, _find_free_slot, and the stores into the slot;   *)
(* the exchanges themselves do not overlap.                                *)
(***************************************************************************)
\* callers that take no notice of the lock
LockIgnored(owner) == TRUE

\* the lock can be taken
LockFree(owner) == owner = 0

\* caller t has made its step: its record becomes c, the lock goes to owner
RaceStep(t, c, owner, table, open) ==
    /\ race' = [race EXCEPT !.call[t] = c, !.owner = IF race.lock THEN owner ELSE 0]
    /\ sessions' = table
    /\ devOpen' = open
    /\ UNCHANGED << initialized, accepted, steps, last, slip, codec, typed, xchg >>

\* fn_open(&handle, 0, "tcp://a", 0) up to the parsed response: under the
\* lock the caller first takes it
RaceExchange(t) ==
    LET c == race.call[t]
        req == fn_build_open_packet(0, OpenFlags(0), TcpUrl)
    IN /\ c.pc = "idle"
       /\ race.lock => LockFree(race.owner)
       /\ \E link \in { "intact", "lost_reply" } :
          \E x \in fn_transport_exchange(req, devOpen, link) :
             LET r == fn_parse_open_response(x.resp, Len(x.resp))
             IN IF x.result # FN_OK
                THEN RaceStep(t, [c EXCEPT !.pc = "done", !.result = x.result], 0,
                              sessions, x.open)
                ELSE IF r.result # FN_OK
                THEN RaceStep(t, [c EXCEPT !.pc = "done", !.result = r.result], 0,
                              sessions, x.open)
                ELSE RaceStep(t, [c EXCEPT !.pc = "parsed", !.resp_handle = r.handle,
                                           !.resp_flags = r.flags], t,
                              sessions, x.open)

\* slot = _find_free_slot(); if (slot < 0) { *handle = resp_handle; return FN_OK; }
RaceFind(t) ==
    LET c == race.call[t]
        slot == _find_free_slot(sessions)
    IN /\ c.pc = "parsed"
       /\ IF slot < 0
          THEN RaceStep(t, [c EXCEPT !.pc = "done", !.slot = slot, !.result = FN_OK], 0,
                        sessions, devOpen)
          ELSE RaceStep(t, [c EXCEPT !.pc = "found", !.slot = slot], t, sessions, devOpen)

\* the stores into _sessions[slot], and return FN_OK
RaceStore(t) ==
    LET c == race.call[t]
    IN /\ c.pc = "found"
       /\ RaceStep(t, [c EXCEPT !.pc = "done", !.result = FN_OK], 0,
                   [sessions EXCEPT ![c.slot] =
                                        OpenedSession(c.resp_handle, c.resp_flags, TcpUrl)],
                   devOpen)

\* after fn_init and k Opens, one caller at a time, with handles 1..k
RaceInit ==
    /\ initialized = 1
    /\ \E k \in 0..(FN_MAX_SESSIONS - 1) :
          /\ sessions = [i \in Slots |-> IF i < k
                                          THEN OpenedSession(i + 1, FN_OPEN_RESP_ACCEPTED, TcpUrl)
                                          ELSE ZeroSession]
          /\ devOpen = 1..k
    /\ accepted = [i \in Slots |-> 0]
    /\ steps = 0
    /\ last = NoCall
    /\ slip = SlipIdle
    /\ codec = CodecIdle
    /\ typed = TypedIdle
    /\ xchg = XchgIdle
    /\ race \in { [RaceIdle EXCEPT !.lock = l] : l \in BOOLEAN }

RaceNext ==
    \/ \E t \in Callers : RaceExchange(t)
    \/ \E t \in Callers : RaceFind(t)
    \/ \E t \in Callers : RaceStore(t)

SpecRace == RaceInit /\ [][RaceNext]_vars

(***************************************************************************)
(* Properties                                                              *)
(***************************************************************************)
\* the call that returns in this step
Returns(ops) == Idle /\ last'.op \in ops

\* slot i of the table tracks handle h
Tracks(table, i, h) == table[i].active # 0 /\ table[i].handle = h

\* C1: fn_write on a tracked session with an offset other than the session's
\* write cursor returns FN_ERR_INVALID without an exchange, and leaves the
\* session table (the cursor with it) as it was
C1_WriteOffsetChecked ==
    [][ (/\ Returns({ "write" })
         /\ _find_session(sessions, last'.handle) >= 0
         /\ sessions[_find_session(sessions, last'.handle)].write_offset # last'.offset)
        => /\ last'.result = FN_ERR_INVALID
           /\ last'.nx = 0
           /\ sessions' = sessions
           /\ devOpen' = devOpen ]_vars

\* a write with offset 0 was refused on a session whose cursor has moved
C1_Witness ==
    /\ last.op = "write" /\ last.result = FN_ERR_INVALID /\ last.nx = 0
    /\ \E i \in Slots : /\ Tracks(sessions, i, last.handle)
                        /\ _find_session(sessions, last.handle) = i
                        /\ sessions[i].write_offset > 0
                        /\ last.offset = 0

\* C2: the write cursor of every tracked session is the sum of the byte
\* counts the device acknowledged in the successful Write responses the
\* library received for it since its Open
C2_CursorIsAcceptedSum ==
    \A i \in Slots : sessions[i].active # 0 => sessions[i].write_offset = accepted[i]

\* C3: fn_read, fn_write, fn_info and fn_close on a handle that no active slot
\* holds return FN_ERR_NOT_FOUND without an exchange
C3_UnknownHandleNotFound ==
    [][ (/\ Returns({ "read", "write", "info", "close" })
         /\ initialized # 0
         /\ last'.handle # FN_INVALID_HANDLE
         /\ ~last'.badptr
         /\ _find_session(sessions, last'.handle) < 0)
        => last'.result = FN_ERR_NOT_FOUND /\ last'.nx = 0 ]_vars

\* C4: a call with an argument error (a NULL pointer, the handle
\* FN_INVALID_HANDLE, a URL of more than FN_MAX_URL_LEN characters, a write
\* offset other than the cursor) or a resource error (no free slot for an
\* Open, a handle no slot holds) returns without an exchange
C4_ErrorsBeforeExchange ==
    [][ (/\ Returns({ "open", "read", "write", "info", "close" })
         /\ initialized # 0
         /\ \/ last'.badptr
            \/ last'.longurl
            \/ last'.op # "open" /\ last'.handle = FN_INVALID_HANDLE
            \/ last'.op # "open" /\ _find_session(sessions, last'.handle) < 0
            \/ last'.op = "open" /\ _find_free_slot(sessions) < 0
            \/ /\ last'.op = "write"
               /\ _find_session(sessions, last'.handle) >= 0
               /\ sessions[_find_session(sessions, last'.handle)].write_offset
                     # last'.offset)
        => last'.nx = 0 /\ last'.result # FN_OK ]_vars

\* C5: an fn_open with valid arguments while all FN_MAX_SESSIONS slots are
\* active returns FN_ERR_NO_HANDLES
C5_FullTableRefusesOpen ==
    [][ (/\ Returns({ "open" })
         /\ initialized # 0
         /\ ~last'.badptr /\ ~last'.longurl
         /\ \A i \in Slots : sessions[i].active # 0)
        => last'.result = FN_ERR_NO_HANDLES ]_vars

\* C6: a slot is active only for a session that is open on the device: once
\* the session is closed or evicted no active slot holds its handle
C6_TrackedOnlyWhileOpen ==
    \A i \in Slots : sessions[i].active # 0 => sessions[i].handle \in devOpen

\* C7: no two active slots hold the same handle
C7_HandlesUnique ==
    \A i, j \in Slots :
        (i # j /\ sessions[i].active # 0 /\ sessions[j].active # 0)
        => sessions[i].handle # sessions[j].handle

\* C8: decoding what fn_slip_encode produced from b gives b back, and the
\* length fn_slip_decode returns is the length of b
C8_SlipRoundTrip ==
    slip.pc = "decoded" => slip.decoded = slip.input /\ slip.len = Len(slip.input)

\* a sequence holding both special bytes went through encode and decode
C8_Witness ==
    /\ slip.pc = "decoded"
    /\ Len(slip.input) = MaxSlipLen
    /\ \E i, j \in 1..Len(slip.input) :
          slip.input[i] = SLIP_END /\ slip.input[j] = SLIP_ESCAPE
    /\ Len(slip.encoded) = Len(slip.input) + 4

\* C9: fn_parse_response_header accepts every frame a request builder
\* produced: the length field is the frame's length, the checksum field is
\* the checksum of the frame, the status is success and the payload is what
\* follows the FN_HEADER_SIZE header bytes
C9_BuiltFramesParse ==
    (codec.pc = "parsed" /\ Len(codec.packet) > 0)
    => /\ codec.parsed.result = FN_OK
       /\ codec.parsed.status = FN_OK
       /\ codec.parsed.data_offset = FN_HEADER_SIZE
       /\ codec.parsed.data_len = Len(codec.packet) - FN_HEADER_SIZE
       /\ RD16(codec.packet, 2) = Len(codec.packet)
       /\ ResponseChecksum(codec.packet, Len(codec.packet)) = Peek(codec.packet, 4)

\* a Write frame carrying data was built and parsed
C9_Witness ==
    /\ codec.pc = "parsed"
    /\ codec.args[1] = FN_CMD_WRITE
    /\ Len(codec.args[5]) = MaxDataLen
    /\ Len(codec.packet) = FN_HEADER_SIZE + 9 + MaxDataLen
    /\ codec.parsed.result = FN_OK

\* C10: a response whose length field is not the number of bytes delivered is
\* refused with FN_ERR_INVALID by fn_parse_response_header and by fn_open,
\* fn_read, fn_write and fn_info, which parse it; the outputs of the call and
\* the session table stay as they were
C10_LengthMismatchRejected ==
    [][ (/\ Returns({ "open", "read", "write", "info" })
         /\ last'.nx = 1
         /\ Len(last'.resp) > 0
         /\ RD16(last'.resp, 2) # Len(last'.resp))
        => /\ fn_parse_response_header(last'.resp, Len(last'.resp)).result
                 = FN_ERR_INVALID
           /\ last'.result = FN_ERR_INVALID
           /\ last'.out = NoOut
           /\ sessions' = sessions ]_vars

\* an Open was answered by a grant that arrived one byte short
C10_Witness ==
    /\ last.op = "open" /\ last.nx = 1
    /\ Len(last.resp) >= FN_HEADER_SIZE
    /\ RD16(last.resp, 2) = Len(last.resp) + 1
    /\ last.result = FN_ERR_INVALID
    /\ devOpen # {}

\* the response header of the call that has just returned
LastHeader == fn_parse_response_header(last.resp, Len(last.resp))

\* the call that has just returned made an exchange that delivered a response
\* with a valid header
Answered(ops) ==
    /\ last.op \in ops
    /\ last.nx = 1
    /\ last.xres = FN_OK
    /\ LastHeader.result = FN_OK

\* the shortest payload of a success response, by operation
MinPayload(op) ==
    IF op = "open" THEN 6
    ELSE IF op = "info" THEN 16
    ELSE 12

\* C12: a success response whose payload is shorter than the minimum of its
\* type (Open 6, Read 12, Write 12, Info 16) makes the operation return
\* FN_ERR_INVALID, never FN_OK with defaulted outputs.
C12_ShortPayloadIsInvalid ==
    ( /\ Answered({"open", "read", "write", "info"})
      /\ LastHeader.status = FN_OK
      /\ LastHeader.data_len < MinPayload(last.op) )
    => last.result = FN_ERR_INVALID

\* C13: fn_info answered with the not-ready status returns FN_ERR_NOT_READY
\* and has stored zero in the caller's http_status and content_length.
C13_NotReadyZeroesInfo ==
    ( /\ Answered({"info"})
      /\ LastHeader.status = FN_ERR_NOT_READY )
    => /\ last.result = FN_ERR_NOT_READY
       /\ last.out.http_status = 0
       /\ last.out.content_length = 0

\* the header of the response given to the typed parsers
TypedHeader == fn_parse_response_header(typed.response, Len(typed.response))

\* a typed parser has run on the response
TypedDone == typed.pc \notin { "idle", "input", "frame", "header" }

\* the parser stored none of its outputs
StoredNothing ==
    CASE typed.pc = "open" -> typed.parsed.handle = Unset /\ typed.parsed.flags = Unset
      [] typed.pc = "read" ->
             /\ typed.parsed.handle = Unset /\ typed.parsed.offset_echo = Unset
             /\ typed.parsed.flags = Unset /\ typed.parsed.data_len = Unset
             /\ typed.parsed.copied = << >>
      [] typed.pc = "info" ->
             /\ typed.parsed.handle = Unset /\ typed.parsed.http_status = Unset
             /\ typed.parsed.content_length = Unset /\ typed.parsed.flags = Unset
      [] OTHER -> ~typed.parsed.stored

DeclaredDataLen == RD16(typed.response, TypedHeader.data_offset + 10)
DeclaredData(n) == [k \in 1..n |-> Peek(typed.response, TypedHeader.data_offset + 12 + k - 1)]

\* C14: for every successful Read response the bytes stored in the caller's
\* buffer are the first min(declared data length, capacity) data bytes, never
\* more than the capacity; the reported length is the declared length and
\* the reported flags are the flag byte of the response.
C14_ReadCopiesMin ==
    (typed.pc = "read" /\ typed.parsed.result = FN_OK)
    => /\ Len(typed.parsed.copied) <= typed.data_max
       /\ \/ Len(typed.parsed.copied) = DeclaredDataLen /\ DeclaredDataLen <= typed.data_max
          \/ Len(typed.parsed.copied) = typed.data_max /\ typed.data_max <= DeclaredDataLen
       /\ typed.parsed.copied = DeclaredData(Len(typed.parsed.copied))
       /\ typed.parsed.data_len = DeclaredDataLen
       /\ typed.parsed.flags = Peek(typed.response, TypedHeader.data_offset + 1)

\* a Read response that declares more data than the caller's buffer holds,
\* with end-of-data set
C14_Witness ==
    /\ typed.pc = "read"
    /\ typed.parsed.result = FN_OK
    /\ typed.data_max >= 1
    /\ DeclaredDataLen > typed.data_max
    /\ typed.parsed.data_len = DeclaredDataLen
    /\ Len(typed.parsed.copied) = typed.data_max
    /\ typed.parsed.flags = FN_READ_RESP_EOF

\* C15: every typed parser returns FN_ERR_UNSUPPORTED for a success response
\* whose first payload byte is not the known version (the payload being long
\* enough for every response type, so that no length test can interfere).
C15_VersionChecked ==
    ( /\ TypedDone
      /\ typed.pc \notin { "clock_set", "clock_set_timezone", "clock_set_timezone_save" }
      /\ TypedHeader.result = FN_OK
      /\ TypedHeader.status = FN_OK
      /\ TypedHeader.data_len >= 16
      /\ Peek(typed.response, TypedHeader.data_offset) # FN_PROTOCOL_VERSION )
    => typed.parsed.result = FN_ERR_UNSUPPORTED

\* C16: fn_transport_exchange gives raw_buf to the decoder, and returns
\* FN_OK, only when the bytes accumulated form a complete frame: at least 2
\* bytes, the first and the last being the sentinel; a buffer filled without
\* a closing sentinel included.
C16_DecodesOnlyCompleteFrame ==
    (xchg.decoded \/ xchg.result = FN_OK) => FrameComplete(xchg.raw_buf)

\* C17: when the wait budget reaches zero with nothing or only part of a
\* frame received, the call returns FN_ERR_TIMEOUT without decoding; FN_OK is
\* never returned with a spent budget.
C17_SpentBudgetIsTimeout ==
    xchg.timeout_ms = 0
    => /\ xchg.pc = "done"
       /\ xchg.result = FN_ERR_TIMEOUT
       /\ ~xchg.decoded
       /\ ~FrameComplete(xchg.raw_buf)

\* the budget ran out on a frame that was begun and not closed
C17_Witness ==
    /\ xchg.pc = "done"
    /\ xchg.timeout_ms = 0
    /\ xchg.result = FN_ERR_TIMEOUT
    /\ Len(xchg.raw_buf) >= 2
    /\ xchg.raw_buf[1] = SLIP_END

\* C18: when fn_slip_decode fails on the received bytes the call returns
\* FN_ERR_IO, the request having been written once and nothing read after
\* the decoding; when the call returns FN_OK the response length is the
\* decoded length and at least 1.
C18_DecodeFailureIsIoError ==
    /\ (xchg.decoded /\ fn_slip_decode(xchg.raw_buf).len = 0)
       => /\ xchg.pc = "done"
          /\ xchg.result = FN_ERR_IO
          /\ xchg.wire = xchg.slip_buf
    /\ xchg.result = FN_OK
       => /\ xchg.decoded
          /\ xchg.resp_len = fn_slip_decode(xchg.raw_buf).len
          /\ xchg.resp_len >= 1
          /\ Len(xchg.response) = xchg.resp_len

\* a complete frame whose escape byte is followed by the sentinel
C18_Witness ==
    /\ xchg.pc = "done"
    /\ xchg.decoded
    /\ xchg.raw_buf = << SLIP_END, SLIP_ESCAPE, SLIP_END >>
    /\ xchg.result = FN_ERR_IO

\* C19: every call of fn_transport_exchange returns, whatever the link does.
C19_ExchangeTerminates == <>(xchg.pc = "done")

RequestWrittenOnce ==
    /\ Len(xchg.wire) = xchg.total
    /\ xchg.wire = [k \in 1..xchg.total |-> xchg.slip_buf[k]]
    /\ xchg.timeout_ms # Unset => xchg.wire = xchg.slip_buf

\* a zero-length fn_write at the write cursor of a tracked session returns
\* in this step: fn_write(handle, write_offset, data, 0, written)
ZeroLengthWrite ==
    /\ Returns({ "write" })
    /\ last'.len = 0
    /\ initialized # 0
    /\ _find_session(sessions, last'.handle) >= 0
    /\ last'.offset = ExpectedOffset(last'.handle)

\* C21: a zero-length fn_write at the current cursor is sent as a Write
\* request with data_len = 0 in one exchange; when the device answers that
\* the session kind does not support it the call returns FN_ERR_UNSUPPORTED;
\* in every outcome the write cursor is unchanged and the session stays
\* tracked.
C21_ZeroLengthWrite ==
    [][ ZeroLengthWrite
        => /\ last'.nx = 1
           /\ \A data \in { NULL, WriteData } :
                 LET req == fn_build_write_packet(last'.handle, last'.offset, data, 0)
                 IN /\ Peek(req, 1) = FN_CMD_WRITE
                    /\ RD16(req, 13) = 0
                    /\ Len(req) = FN_HEADER_SIZE + 9
           /\ ( /\ last'.xres = FN_OK
                /\ fn_parse_response_header(last'.resp, Len(last'.resp)).result = FN_OK
                /\ fn_parse_response_header(last'.resp, Len(last'.resp)).status
                      = FN_ERR_UNSUPPORTED )
              => last'.result = FN_ERR_UNSUPPORTED
           /\ sessions' = sessions ]_vars

\* a zero-length write with NULL data on a session whose cursor has moved was
\* answered "unsupported"; the session is still tracked
C21_Witness ==
    /\ Answered({ "write" })
    /\ LastHeader.status = FN_ERR_UNSUPPORTED
    /\ last.result = FN_ERR_UNSUPPORTED
    /\ last.len = 0
    /\ \E i \in Slots : /\ Tracks(sessions, i, last.handle)
                        /\ sessions[i].write_offset = last.offset
                        /\ last.offset > 0

\* C22: until fn_init has returned FN_OK every other library operation fails
\* without any byte being sent on the link and without changing the session
\* table; fn_open, fn_read, fn_write, fn_info and fn_close return
\* FN_ERR_INVALID.
C22_NothingBeforeInit ==
    [][ (/\ initialized = 0
         /\ Idle
         /\ last'.op \notin { "none", "init" })
        => /\ last'.sent = << >>
           /\ last'.out = NoOut
           /\ sessions' = sessions
           /\ devOpen' = devOpen
           /\ IF last'.op = "is_ready" THEN last'.result = 0
              ELSE last'.result # FN_OK
           /\ last'.op = "tcp_open" => last'.nx = 0
           /\ last'.op \in { "open", "read", "write", "info", "close" }
              => (last'.result = FN_ERR_INVALID /\ last'.nx = 0) ]_vars

\* before fn_init has succeeded, a clock operation with valid arguments
\* called fn_transport_exchange, which refused it before writing anything
C22_Witness ==
    /\ initialized = 0
    /\ last.op = "clock_set"
    /\ ~last.badptr
    /\ last.nx = 1
    /\ last.xres = FN_ERR_NOT_FOUND
    /\ last.result = FN_ERR_NOT_FOUND
    /\ last.sent = << >>

\* the ordinary decimal representation of n, as character codes
RECURSIVE Decimal(_)
Decimal(n) ==
    IF n < 10 THEN << 48 + n >>
    ELSE Decimal(n \div 10) \o << 48 + (n % 10) >>

\* C23: for every host the length check accepts and every port,
\* fn_tcp_open(handle, host, port) behaves as
\* fn_open(handle, 0, "tcp://<host>:<port>", 0) with the port in ordinary
\* decimal: the Open request it sends carries that URL.
C23_TcpOpenIsOpen ==
    (last.op = "tcp_open" /\ last.nx = 1)
    => last.sent = fn_slip_encode(
                       fn_build_open_packet(0, 0, TcpScheme \o last.host \o << 58 >>
                                                  \o Decimal(last.port)))

\* C24: the output of fn_slip_encode begins and ends with 0xC0 and holds no
\* other 0xC0; its length is the input's length plus 2 plus the number of
\* input bytes that are 0xC0 or 0xDB, which is at most 2 * len + 2.
C24_EncodedFrameShape ==
    slip.pc \in { "encoded", "decoded" }
    => LET e == slip.encoded
           n == Len(slip.input)
           escaped == { k \in 1..n : slip.input[k] \in { SLIP_END, SLIP_ESCAPE } }
       IN /\ Len(e) >= 2
          /\ e[1] = SLIP_END
          /\ e[Len(e)] = SLIP_END
          /\ \A k \in 2..(Len(e) - 1) : e[k] # SLIP_END
          /\ Len(e) = n + 2 + Cardinality(escaped)
          /\ Len(e) <= 2 * n + 2

\* an input of MaxSlipLen sentinel and escape bytes was encoded to twice its
\* length plus two
C24_Witness ==
    /\ slip.pc = "encoded"
    /\ Len(slip.input) = MaxSlipLen
    /\ \A k \in 1..MaxSlipLen : slip.input[k] \in { SLIP_END, SLIP_ESCAPE }
    /\ \E k \in 1..MaxSlipLen : slip.input[k] = SLIP_END
    /\ Len(slip.encoded) = 2 * MaxSlipLen + 2

\* the bytes of input between its leading sentinel, if it has one, and the
\* first sentinel after that (or the end of the input)
SlipBody(input) ==
    LET start == IF Len(input) > 0 /\ input[1] = SLIP_END THEN 2 ELSE 1
        ends == { k \in start..Len(input) : input[k] = SLIP_END }
        stop == IF ends = {} THEN Len(input) + 1
                ELSE CHOOSE k \in ends : \A j \in ends : k <= j
    IN SubSeq(input, start, stop - 1)

\* body holds an escape byte that is its last byte (the last of the buffer, or
\* followed by the sentinel) or is followed by neither 0xDC nor 0xDD
BadEscape(body) ==
    \E k \in 1..Len(body) :
        /\ body[k] = SLIP_ESCAPE
        /\ (k = Len(body) \/ body[k + 1] \notin { SLIP_ESC_END, SLIP_ESC_ESC })

\* C25: fn_slip_decode strips at most one leading sentinel, stops at the next
\* sentinel ignoring everything after it, and returns 0 whenever the bytes
\* before that sentinel hold an escape byte that ends the buffer or is
\* followed by anything other than 0xDC or 0xDD; otherwise it returns the
\* bytes between the two with the escapes undone.
C25_DecodeStopsAtSentinel ==
    slip.pc = "raw"
    => LET body == SlipBody(slip.input)
       IN IF BadEscape(body) THEN slip.len = 0
          ELSE /\ slip.len = Len(slip.decoded)
               /\ fn_slip_encode(slip.decoded) = << SLIP_END >> \o body \o << SLIP_END >>

\* a byte, the sentinel and a dangling escape after it: one byte decoded
C25_Witness ==
    /\ slip.pc = "raw"
    /\ slip.input = << 65, SLIP_END, SLIP_ESCAPE >>
    /\ slip.len = 1
    /\ slip.decoded = << 65 >>

\* two leading sentinels: the second one ends the frame
C25_WitnessLeading ==
    /\ slip.pc = "raw"
    /\ slip.input = << SLIP_END, SLIP_END, 65 >>
    /\ slip.len = 0

\* handle h is held by no active slot of table
Untracked(table, h) == _find_session(table, h) < 0

\* C26: when every slot is active and the device grants a handle, fn_open
\* returns FN_OK with that handle and records nothing; from then on fn_read,
\* fn_write and fn_info on that handle find no session and return
\* FN_ERR_NOT_FOUND without an exchange, also after other sessions are
\* closed, while fn_close on it still sends a Close request; no operation
\* returns FN_ERR_NO_HANDLES.
C26_UntrackedGrant ==
    [][ /\ ( /\ Returns({ "open" })
             /\ _find_free_slot(sessions) < 0
             /\ last'.result = FN_OK )
           => /\ sessions' = sessions
              /\ last'.out.handle \in devOpen'
              /\ Untracked(sessions', last'.out.handle)
        /\ Returns({ "read", "write", "info", "close" })
           => \A h \in CallHandles : Untracked(sessions, h) => Untracked(sessions', h)
        /\ ( /\ Returns({ "read", "write", "info" })
             /\ initialized # 0
             /\ last'.handle # FN_INVALID_HANDLE
             /\ Untracked(sessions, last'.handle) )
           => (last'.result = FN_ERR_NOT_FOUND /\ last'.nx = 0)
        /\ ( /\ Returns({ "close" })
             /\ initialized # 0
             /\ last'.handle # FN_INVALID_HANDLE )
           => last'.nx = 1
        /\ Idle => last'.result # FN_ERR_NO_HANDLES ]_vars

C27_WitnessRefused ==
    /\ Answered({ "close" })
    /\ LastHeader.status = FN_ERR_NOT_FOUND
    /\ last.result = FN_OK

\* the last descriptor byte of the frame parsed and the offset after the
\* descriptor bytes; the width and the number of the fields it describes
FrameDescriptor ==
    IF Peek(typed.response, 5) = 0 THEN [descr |-> 0, offset |-> FN_HEADER_SIZE]
    ELSE DescriptorLoop(typed.response, Len(typed.response), Peek(typed.response, 5),
                        FN_HEADER_SIZE)
FieldWidth == field_size_table[(FrameDescriptor.descr % 8) + 1]
FieldCount == field_count_table[(FrameDescriptor.descr % 8) + 1]

\* C28: whenever fn_parse_response_header returns FN_OK the payload window
\* lies inside the response: data_offset <= resp_len and data_offset +
\* data_len = resp_len, with data_offset = 6 + the continuation bytes consumed
\* + field width * field count, for every descriptor; data_len never wraps.
C28_WindowInsideResponse ==
    (typed.pc = "header" /\ typed.parsed.result = FN_OK)
    => /\ typed.parsed.data_offset <= Len(typed.response)
       /\ typed.parsed.data_offset + typed.parsed.data_len = Len(typed.response)
       /\ typed.parsed.data_offset = FrameDescriptor.offset + FieldWidth * FieldCount

\* C29: the status fn_parse_response_header reports is success only if no
\* field is described or the first field, read little-endian at its full
\* width (1, 2 or 4 bytes), is zero.
C29_StatusIsFirstField ==
    ( /\ typed.pc = "header"
      /\ typed.parsed.result = FN_OK
      /\ typed.parsed.status = FN_OK
      /\ FieldCount > 0
      /\ FrameDescriptor.offset + FieldWidth <= Len(typed.response) )
    => \A i \in 0..(FieldWidth - 1) : Peek(typed.response, FrameDescriptor.offset + i) = 0

\* caller t has returned FN_OK from an fn_open that found a free slot
OpenedInSlot(t) ==
    /\ race.call[t].pc = "done"
    /\ race.call[t].result = FN_OK
    /\ race.call[t].slot >= 0

\* C30: without mutual exclusion two fn_open calls can both observe the same
\* free slot and both return FN_OK with distinct handles, after which
\* _find_session finds only one of the two (C30_Witness); when the calls run
\* under one lock, each successful Open with a free slot gets its own slot:
\* the slot it found is still free when it fills it, holds its handle when
\* it has returned, and is not the slot of the other caller.
C30_LockedOpenOwnSlot ==
    race.lock
    => /\ \A t \in Callers :
             /\ race.call[t].pc = "found" => sessions[race.call[t].slot].active = 0
             /\ OpenedInSlot(t)
                => /\ Tracks(sessions, race.call[t].slot, race.call[t].resp_handle)
                   /\ _find_session(sessions, race.call[t].resp_handle)
                         = race.call[t].slot
       /\ (OpenedInSlot(1) /\ OpenedInSlot(2)) => race.call[1].slot # race.call[2].slot

\* without the lock: both calls returned FN_OK with distinct handles after
\* finding the same free slot, and _find_session finds one handle only
C30_Witness ==
    /\ ~race.lock
    /\ OpenedInSlot(1) /\ OpenedInSlot(2)
    /\ race.call[1].slot = race.call[2].slot
    /\ race.call[1].resp_handle # race.call[2].resp_handle
    /\ { race.call[1].resp_handle, race.call[2].resp_handle } \subseteq devOpen
    /\ Cardinality({ t \in Callers : Untracked(sessions, race.call[t].resp_handle) }) = 1

\* under the lock: both calls returned FN_OK, each handle in its own slot
C30_WitnessLocked ==
    /\ race.lock
    /\ OpenedInSlot(1) /\ OpenedInSlot(2)
    /\ race.call[1].slot # race.call[2].slot
    /\ \A t \in Callers : ~Untracked(sessions, race.call[t].resp_handle)

\* what the three fields cannot change of a table: the rest of every slot
Key(table) == [i \in Slots |-> [active |-> table[i].active, handle |-> table[i].handle,
                                write_offset |-> table[i].write_offset]]

\* the request the call c builds, from its arguments alone
TwinRequest(c) ==
    CASE c.op = "open" -> fn_build_open_packet(c.method, OpenFlags(c.flags), c.url)
      [] c.op = "tcp_open" ->
             fn_build_open_packet(0, OpenFlags(0),
                                  TcpScheme \o c.host \o << 58 >> \o PortDigits(c.port))
      [] c.op = "write" ->
             fn_build_write_packet(c.handle, c.offset,
                                   IF c.badptr THEN NULL ELSE WriteData, c.len)
      [] c.op = "read" -> fn_build_read_packet(c.handle, c.offset, c.len)
      [] c.op = "info" -> fn_build_info_packet(c.handle)
      [] c.op = "close" -> fn_build_close_packet(c.handle)

\* the value the call c returns without an exchange, Unset when it makes one:
\* a function of the arguments and of key, the table without the three fields
TwinEarly(c, key) ==
    LET slot == _find_session(key, c.handle)
    IN IF c.op = "tcp_open" /\ 6 + Len(c.host) > FN_MAX_URL_LEN - 10
       THEN FN_ERR_URL_TOO_LONG
       ELSE IF initialized = 0 THEN FN_ERR_INVALID
       ELSE IF c.op \in { "open", "tcp_open" }
       THEN IF c.badptr THEN FN_ERR_INVALID
            ELSE IF c.longurl THEN FN_ERR_URL_TOO_LONG
            ELSE IF Len(TwinRequest(c)) = 0 THEN FN_ERR_INVALID ELSE Unset
       ELSE IF c.handle = FN_INVALID_HANDLE THEN FN_ERR_INVALID
       ELSE IF c.op = "read" /\ c.badptr THEN FN_ERR_INVALID
       ELSE IF c.op \in { "read", "write", "info" } /\ slot < 0 THEN FN_ERR_NOT_FOUND
       ELSE IF c.op = "write" /\ c.offset # key[slot].write_offset THEN FN_ERR_INVALID
       ELSE IF Len(TwinRequest(c)) = 0 THEN FN_ERR_INVALID ELSE Unset

\* the value the call c returns after its exchange: a function of what the
\* exchange returned and delivered
TwinLate(c) ==
    LET h == fn_parse_response_header(c.resp, Len(c.resp))
    IN IF c.xres # FN_OK THEN c.xres
       ELSE CASE c.op \in { "open", "tcp_open" } ->
                     fn_parse_open_response(c.resp, Len(c.resp)).result
              [] c.op = "write" ->
                     IF h.result # FN_OK THEN h.result
                     ELSE IF StatusRefused(h.status) THEN h.status ELSE FN_OK
              [] c.op = "read" ->
                     fn_parse_read_response(c.resp, Len(c.resp), << >>, c.len).result
              [] c.op = "info" -> fn_parse_info_response(c.resp, Len(c.resp)).result
              [] c.op = "close" -> c.xres

\* the rest of the table after the call c: a function of key and the outcome
TwinKeyAfter(c, key) ==
    LET free == _find_free_slot(key)
        slot == _find_session(key, c.handle)
    IN IF c.nx = 0 THEN key
       ELSE CASE c.op \in { "open", "tcp_open" } ->
                     IF c.result = FN_OK /\ free >= 0
                     THEN [key EXCEPT ![free] = [active |-> 1, handle |-> c.out.handle,
                                                 write_offset |-> 0]]
                     ELSE key
              [] c.op = "write" ->
                     IF c.result = FN_OK /\ c.out.written # Unset
                     THEN [key EXCEPT ![slot].write_offset = U32(@ + c.out.written)]
                     ELSE key
              [] c.op = "close" -> _free_handle(key, c.handle)
              [] OTHER -> key

\* the call c, made with the table at key, returned what its arguments, key
\* and its exchange determine, and sent nothing or the request they determine
TwinDetermined(c, key) ==
    IF TwinEarly(c, key) # Unset
    THEN c.result = TwinEarly(c, key) /\ c.nx = 0 /\ c.sent = << >>
    ELSE /\ c.nx = 1
         /\ c.sent \in { << >>, fn_slip_encode(TwinRequest(c)) }
         /\ c.xres = FN_OK => c.sent # << >>
         /\ c.result = TwinLate(c)

\* the table an fn_read leaves: the read cursor of the addressed slot moved
\* by bytes_read when the call returned FN_OK and the slot is a TCP one
ReadCursorMoved(table, c) ==
    LET slot == _find_session(table, c.handle)
    IN IF c.result = FN_OK /\ slot >= 0 /\ table[slot].is_tcp # 0
       THEN [table EXCEPT ![slot].read_offset = U32(@ + c.out.bytes_read)]
       ELSE table

\* C31: the read cursor is informational. An fn_read that returns FN_OK adds
\* bytes_read to the read cursor of a TCP session and leaves the table as it
\* was otherwise; and the result of every session operation, the request it
\* sends and what it does to the rest of the table are determined by its
\* arguments, its exchange and the table without read_offset, is_tcp and
\* needs_body, so that two runs that differ only in these fields agree
C31_ReadCursorInformational ==
    [][ /\ Returns({ "read" }) => sessions' = ReadCursorMoved(sessions, last')
        /\ Returns({ "open", "tcp_open", "write", "read", "info", "close" })
              => /\ TwinDetermined(last', Key(sessions))
                 /\ Key(sessions') = TwinKeyAfter(last', Key(sessions)) ]_vars

\* an fn_read on a TCP session at an offset other than the read cursor has
\* returned bytes and moved the cursor
C31_Witness ==
    /\ last.op = "read" /\ last.result = FN_OK /\ last.nx = 1
    /\ last.out.bytes_read > 0
    /\ \E i \in Slots :
          /\ Tracks(sessions, i, last.handle)
          /\ sessions[i].is_tcp = 1
          /\ sessions[i].read_offset # last.offset + last.out.bytes_read

\* an fn_read on a session that is not a TCP one and needs a body has
\* returned bytes and left the cursor at 0
C31_WitnessHttp ==
    /\ last.op = "read" /\ last.result = FN_OK /\ last.out.bytes_read > 0
    /\ \E i \in Slots :
          /\ Tracks(sessions, i, last.handle)
          /\ sessions[i].is_tcp = 0 /\ sessions[i].needs_body = 1
          /\ sessions[i].read_offset = 0

\* slot i of table2 is slot i of table1 but for the read cursor
SameButReadCursor(table1, table2, i) ==
    table2[i] = [table1[i] EXCEPT !.read_offset = table2[i].read_offset]

\* C32: fn_info, fn_is_ready and the clock operations leave the session
\* table as it was; fn_read changes at most the read cursor of the slot of
\* the handle it is given; an fn_open (fn_tcp_open) or fn_write that returns
\* anything other than FN_OK leaves the table as it was
C32_TableFrame ==
    [][ /\ Returns({ "info", "is_ready" } \cup ClockOps) => sessions' = sessions
        /\ Returns({ "read" })
              => \A i \in Slots :
                    IF i = _find_session(sessions, last'.handle)
                    THEN SameButReadCursor(sessions, sessions', i)
                    ELSE sessions'[i] = sessions[i]
        /\ (Returns({ "open", "tcp_open", "write" }) /\ last'.result # FN_OK)
              => sessions' = sessions ]_vars

\* a clock operation has made its exchange while a session was open
C32_Witness ==
    /\ last.op \in ClockOps /\ last.nx = 1 /\ last.result = FN_OK
    /\ \E i \in Slots : sessions[i].active # 0

\* an fn_write at the write cursor of a tracked session made its exchange and
\* returned an error
C32_WitnessWrite ==
    /\ last.op = "write" /\ last.nx = 1 /\ last.result # FN_OK
    /\ \E i \in Slots : Tracks(sessions, i, last.handle)

\* C33: an fn_init on an initialised library returns FN_OK without calling
\* fn_transport_init and leaves the table and the flag as they were; an
\* fn_init on an uninitialised library calls fn_transport_init, returns what
\* it returned, and the library is initialised afterwards exactly when that
\* was FN_OK, so that after a failure the next fn_init calls it again
C33_InitOnce ==
    [][ Returns({ "init" })
           => IF initialized # 0
              THEN /\ last'.result = FN_OK /\ last'.xres = Unset
                   /\ sessions' = sessions /\ initialized' = initialized
              ELSE /\ last'.xres # Unset /\ last'.result = last'.xres
                   /\ initialized' = (IF last'.result = FN_OK THEN 1 ELSE 0) ]_vars

\* a second fn_init has returned with a session open whose write cursor has
\* moved
C33_Witness ==
    /\ last.op = "init" /\ last.result = FN_OK /\ last.xres = Unset
    /\ \E i \in Slots : sessions[i].active # 0 /\ sessions[i].write_offset > 0

\* an fn_init has failed
C33_WitnessFailed ==
    /\ last.op = "init" /\ last.result # FN_OK /\ initialized = 0

\* C34: every Write request fits its buffers: the packet fn_build_write_packet
\* stores is empty (the request was refused) or has at most FN_MAX_PACKET_SIZE
\* bytes, the size of _req_buf, and fn_slip_encode stores at most SlipBufSize
\* bytes for it
C34_RequestFitsBuffers ==
    (codec.pc = "built" /\ codec.args[1] = FN_CMD_WRITE)
    => \/ codec.packet = << >>
       \/ /\ Len(codec.packet) <= FN_MAX_PACKET_SIZE
          /\ SlipStored(codec.packet) <= SlipBufSize

\* C35: fn_parse_read_response copies no byte from beyond the response: for
\* every Read response it accepts, whatever data length the response
\* declares, the number of bytes copied is at most the payload length less
\* the 12 bytes before the data
C35_CopyInsidePayload ==
    (typed.pc = "read" /\ typed.parsed.result = FN_OK)
    => Len(typed.parsed.copied) <= TypedHeader.data_len - 12

\* the command of the request an operation sends
RequestCommand(op) ==
    CASE op \in { "open", "tcp_open" } -> FN_CMD_OPEN
      [] op = "write" -> FN_CMD_WRITE
      [] op = "read" -> FN_CMD_READ
      [] op = "info" -> FN_CMD_INFO

\* C36: fn_open, fn_tcp_open, fn_read, fn_write and fn_info return FN_OK
\* after an exchange only if the response has the device id and the command
\* of the request, and for fn_read and fn_info the handle it echoes is the
\* handle passed, and for fn_read the offset it echoes is the offset passed
C36_ResponseAnswersRequest ==
    (/\ last.op \in { "open", "tcp_open", "write", "read", "info" }
     /\ last.nx = 1 /\ last.result = FN_OK)
    => LET h == fn_parse_response_header(last.resp, Len(last.resp))
       IN /\ Peek(last.resp, 0) = FN_DEVICE_NETWORK
          /\ Peek(last.resp, 1) = RequestCommand(last.op)
          /\ last.op \in { "read", "info" }
                => RD16(last.resp, h.data_offset + 4) = last.handle
          /\ last.op = "read" => RD32(last.resp, h.data_offset + 6) = last.offset

\* the idle polls the receive wait has counted
IdlePolls(x) == (RECV_TIMEOUT_MS - x.timeout_ms) \div RECV_POLL_MS

\* C37: the receive wait has a budget of exactly RECV_TIMEOUT_MS /
\* RECV_POLL_MS = 50 idle polls. The budget is always 5000 less 100 for each
\* idle poll counted, never below 0 and never wrapped; a step that lowers it
\* is a poll with no byte to read and no complete frame held, and lowers it
\* by 100; no step raises it, a read that stores bytes leaves it as it is;
\* FN_ERR_TIMEOUT is returned exactly when the 50th idle poll brings it to 0;
\* and raw_buf never holds more than its capacity
C37_ReceiveBudget ==
    [][ (xchg.pc = "recv" /\ xchg' # xchg)
        => /\ xchg'.timeout_ms \in 0..RECV_TIMEOUT_MS
           /\ xchg'.timeout_ms = RECV_TIMEOUT_MS - RECV_POLL_MS * IdlePolls(xchg')
           /\ xchg'.timeout_ms \in { xchg.timeout_ms, xchg.timeout_ms - RECV_POLL_MS }
           /\ xchg'.timeout_ms # xchg.timeout_ms
                 => /\ xchg'.raw_buf = xchg.raw_buf
                    /\ ~FrameComplete(xchg.raw_buf)
           /\ xchg'.raw_buf # xchg.raw_buf => xchg'.timeout_ms = xchg.timeout_ms
           /\ (xchg'.pc = "done" /\ xchg'.result = FN_ERR_TIMEOUT)
                 <=> (IdlePolls(xchg') = 50 /\ IdlePolls(xchg) = 49)
           /\ Len(xchg'.raw_buf) <= RawBufSize ]_vars

\* the wait has timed out at the 50th idle poll with bytes of an unfinished
\* frame in raw_buf
C37_Witness ==
    /\ xchg.pc = "done" /\ xchg.result = FN_ERR_TIMEOUT
    /\ xchg.timeout_ms = 0
    /\ Len(xchg.raw_buf) > 0

\* the plain sum of data[0 .. n-1]
RECURSIVE PlainSum(_, _)
PlainSum(data, n) == IF n = 0 THEN 0 ELSE PlainSum(data, n - 1) + Peek(data, n - 1)

\* the end-around-carry sum of a plain sum: 0 for 0, otherwise the residue
\* modulo 255 taken in 1..255
EndAroundCarry(sum) == IF sum = 0 THEN 0 ELSE ((sum - 1) % 255) + 1

\* the buffer with its bytes in the order p
Reordered(data, p) == [i \in 1..Len(data) |-> data[p[i]]]

C39_WitnessZero ==
    /\ codec.pc = "done"
    /\ codec.len > 1
    /\ codec.result = 0

\* the response passes the tests that come before the checksum test
ReachesChecksumTest(r) ==
    /\ Len(r) >= FN_HEADER_SIZE
    /\ RD16(r, 2) = Len(r)
    /\ Len(r) <= FN_MAX_PACKET_SIZE

\* the stored checksum byte is not the checksum of the frame with that byte
\* zeroed
ChecksumMismatch(r) == Peek(r, 4) # fn_calc_checksum([r EXCEPT ![5] = 0], Len(r))

\* C38: fn_parse_response_header accepts a response only if its stored
\* checksum byte equals fn_calc_checksum of the frame with the checksum byte
\* zeroed; a response that reaches the checksum test with another checksum
\* makes the parser return FN_ERR_IO with nothing taken from the descriptor
\* or the payload, and the operation that received it (fn_open, fn_tcp_open,
\* fn_write, fn_read, fn_info) returns FN_ERR_IO, stores nothing in its
\* outputs and leaves the session table as it was.
C38_ChecksumGuardsResponse ==
    [][ (Returns({ "open", "tcp_open", "write", "read", "info" })
            /\ last'.nx > 0 /\ last'.xres = FN_OK)
        => LET r == last'.resp
               h == fn_parse_response_header(r, Len(r))
           IN /\ h.result = FN_OK => (ReachesChecksumTest(r) /\ ~ChecksumMismatch(r))
              /\ (ReachesChecksumTest(r) /\ ChecksumMismatch(r))
                    => /\ h = HeaderFail(FN_ERR_IO)
                       /\ last'.result = FN_ERR_IO
                       /\ last'.out = NoOut
                       /\ sessions' = sessions ]_vars

\* an fn_write on an open session has received an acknowledgement with a
\* changed byte and has returned FN_ERR_IO
C38_Witness ==
    /\ last.op = "write"
    /\ last.xres = FN_OK
    /\ ReachesChecksumTest(last.resp)
    /\ ChecksumMismatch(last.resp)
    /\ Len(last.resp) > FN_HEADER_SIZE + 1
    /\ last.result = FN_ERR_IO

\* an fn_read has received data with a changed byte and has returned FN_ERR_IO
C38_WitnessRead ==
    /\ last.op = "read"
    /\ last.xres = FN_OK
    /\ ReachesChecksumTest(last.resp)
    /\ ChecksumMismatch(last.resp)
    /\ Len(last.resp) > FN_HEADER_SIZE + 1
    /\ last.result = FN_ERR_IO

\* C40: the table helpers form an allocate / find / free triple: a handle
\* returned by _alloc_handle is found by _find_session, in the slot that was
\* the lowest free one, and _free_handle on that handle would make that slot
\* inactive again.
C40_AllocatedHandleFound ==
    [][ (Returns({ "alloc" }) /\ last'.out.handle # FN_INVALID_HANDLE)
        => LET slot == _find_free_slot(sessions)
           IN /\ _find_session(sessions', last'.out.handle) = slot
              /\ _free_handle(sessions', last'.out.handle)[slot].active = 0 ]_vars

\* the rest of what _alloc_handle does: FN_INVALID_HANDLE exactly when every
\* slot is active, and then the table is left alone; otherwise the lowest
\* free slot becomes active with both cursors and both kind flags 0, and no
\* other slot changes
AllocFirstFit ==
    [][ Returns({ "alloc" })
        => LET slot == _find_free_slot(sessions)
               full == \A i \in Slots : sessions[i].active # 0
           IN /\ last'.out.handle = FN_INVALID_HANDLE <=> full
              /\ full => sessions' = sessions
              /\ ~full
                    => /\ \A i \in Slots : i < slot => sessions[i].active # 0
                       /\ sessions[slot].active = 0
                       /\ sessions'[slot].active = 1
                       /\ sessions'[slot].write_offset = 0
                       /\ sessions'[slot].read_offset = 0
                       /\ sessions'[slot].handle = sessions[slot].handle
                       /\ \A i \in Slots \ { slot } : sessions'[i] = sessions[i] ]_vars
=========================================================================
